---- MODULE Spec2Model ----
(***************************************************************************)
(* SYNAPSE Protocol Python SDK (synapse_sdk/client.py): SynapseClient, its *)
(* write operations (_build_tx / _send_tx against an external chain), its  *)
(* amount conversion (_to_wei) and its channel-state signer.               *)
(*                                                                         *)
(* The chain, the JSON-RPC transport and the web3 / eth_utils / decimal    *)
(* libraries are collaborators of the client.  Each is modelled at the     *)
(* call site in client.py by what the call does; whatever the collaborator *)
(* decides (mining, receipt status, transport failure, gas price) is a     *)
(* nondeterministic input of the action that makes the call.               *)
(***************************************************************************)
EXTENDS Integers, Sequences, FiniteSets, TLC

VARIABLES
    account,     \* self.account: the signing key, or None (client.py:115-117)
    w3,          \* self.w3: the provider of the JSON-RPC endpoint (client.py:112)
    contracts,   \* self.contracts: the configured contract addresses (client.py:119)
    pc,          \* per caller thread: position inside the current client call
    call,        \* per thread: the operation called and its arguments
    func,        \* per thread: the encoded contract call (func in the code)
    tx,          \* per thread: the transaction dictionary built by _build_tx
    result,      \* per thread: what the call returned or raised
    rpcLog,      \* per thread: the RPC requests the current call has made, in order
    sends,       \* per thread: send_raw_transaction calls made by the current call
    builds,      \* per thread: _build_tx calls made by the current call
    outcome,     \* per thread: the last answer the current call got from outside
    minedAtBuild,\* per thread: transactions of the account mined when _build_tx read the count
    locals,      \* per thread: the loop variables of approve_all (key, tx_hashes)
    calls,       \* number of client calls started so far
    txCount,     \* chain: transaction count (next nonce) of the signing account
    mempool,     \* chain: pending transactions
    receipts,    \* chain: receipts of mined transactions
    signLog,     \* every signature sign_channel_state has returned, in order
    signResult,  \* what the last sign_channel_state call returned or raised
    signCall,    \* the arguments of the last sign_channel_state call, or None
    amount,      \* amount codec: the display amount under conversion
    wei,         \* amount codec: the result of _to_wei(amount)
    wire,        \* amount codec: the wire integer given to _from_wei, or None
    display,     \* amount codec: the result of _from_wei(wire)
    lookup,      \* name lookup: the constant class and the value looked up, or None
    names        \* name lookup: the names found by reflection and by get_name

vars == <<account, w3, contracts, pc, call, func, tx, result, rpcLog, sends, builds, outcome,
          minedAtBuild, locals, calls, txCount, mempool, receipts, signLog, signResult, signCall,
          amount, wei, wire, display, lookup, names>>

callVars  == <<pc, call, func, tx, result, rpcLog, sends, builds, outcome,
               minedAtBuild, locals, calls>>
chainVars == <<txCount, mempool, receipts>>
signVars  == <<signLog, signResult, signCall>>
codecVars == <<amount, wei, wire, display>>
nameVars  == <<lookup, names>>

-----------------------------------------------------------------------------
(* Bounds of the model. *)

MaxCalls == 2        \* client calls started in one behaviour
MaxSigns == 3        \* signatures sign_channel_state returns in one behaviour
MaxCoeff == 120      \* largest coefficient of an amount given to the codec
MaxExp   == 58       \* largest exponent of an amount given to the codec
MinExpAbs == 20      \* amounts given to the codec have exponent >= -MinExpAbs
MaxApproveCalls == 1 \* approve_all calls started in one behaviour
MaxEnum == 16        \* values looked up in the constant classes are -MaxEnum..MaxEnum
MaxWireExp == 78     \* wire integers given to the codec are c * 10^e, e <= MaxWireExp

(* Program constants. *)

EtherDecimals == 18          \* the unit 'ether' of to_wei: 10^18 wei
Gas == 500000                \* 'gas' of every transaction
MaxWeiDigits == 78           \* 2**256 - 1 has 78 decimal digits ...
MaxWeiLead == 1157920892     \* ... and these are its leading ten

None == "None"               \* Python's None where a name or number is expected
Nothing == [none |-> TRUE]   \* Python's None where a structured value is expected
Threads == {"t1", "t2"}

-----------------------------------------------------------------------------
(***************************************************************************)
(* Amount codec.  A display amount is the decimal.Decimal that             *)
(* Decimal(str(amount)) yields: sign, coefficient and exponent, the value  *)
(* being (-1)^sign * coeff * 10^exp ("10.5" is coeff 105, exp -1; "0.50"   *)
(* is coeff 50, exp -2).  A wire amount is an integer c * 10^e kept as the *)
(* pair (c, e) with c not a multiple of ten, because 10^18 does not fit    *)
(* the model checker's machine integers.                                   *)
(***************************************************************************)

Decimal(s, c, e) == [sign |-> s, coeff |-> c, exp |-> e]

RECURSIVE Pow10(_)
Pow10(n) == IF n <= 0 THEN 1 ELSE 10 * Pow10(n - 1)

RECURSIVE NumDigits(_)
NumDigits(c) == IF c < 10 THEN 1 ELSE 1 + NumDigits(c \div 10)

Abs(x) == IF x < 0 THEN -x ELSE x

RECURSIVE TrailingZeros(_)
TrailingZeros(c) ==
    IF c = 0 \/ c % 10 # 0 THEN 0 ELSE 1 + TrailingZeros(c \div 10)

(* The integer c * 10^e, e >= 0, in normal form. *)
WireInt(c, e) ==
    IF c = 0 THEN [c |-> 0, e |-> 0]
    ELSE [c |-> c \div Pow10(TrailingZeros(c)), e |-> e + TrailingZeros(c)]

IsNegative(d) == d.sign = 1 /\ d.coeff # 0
IsZero(d) == d.coeff = 0

(* d < 1, for the comparison d_number < 1 of to_wei. *)
LessThanOne(d) ==
    IsNegative(d) \/ IsZero(d) \/ NumDigits(d.coeff) + d.exp <= 0

(* str(d) of decimal.Decimal, as far as to_wei reads it: whether it holds a
   "." and how many characters follow the ".".  Decimal.__str__ writes plain
   notation when exp <= 0 and the adjusted exponent is above -7, scientific
   notation ("1.5E-7", "1E+3") otherwise. *)
StrOfDecimal(d) ==
    LET n          == NumDigits(d.coeff)
        leftdigits == d.exp + n
        dotplace   == IF d.exp <= 0 /\ leftdigits > -6 THEN leftdigits ELSE 1
        fraclen    == IF dotplace <= 0 THEN n - dotplace
                      ELSE IF dotplace >= n THEN 0
                      ELSE n - dotplace
        explen     == IF leftdigits = dotplace THEN 0
                      ELSE 2 + NumDigits(Abs(leftdigits - dotplace))
    IN  [dot |-> fraclen > 0, after |-> fraclen + explen]

(* c with its last k digits rounded away, ROUND_HALF_EVEN (the rounding of the
   decimal context). *)
RoundHalfEven(c, k) ==
    IF k <= 0 THEN c
    ELSE IF k > 9 THEN 0
    ELSE LET q == c \div Pow10(k)
             r == c % Pow10(k)
             half == 5 * Pow10(k - 1)
         IN  IF r > half \/ (r = half /\ q % 2 = 1) THEN q + 1 ELSE q

(* Decimal d * 10**m computed in a context of precision prec: the product has
   the digits of d followed by m zeros and is rounded to prec digits. *)
MulPow10(d, m, prec) ==
    LET n    == NumDigits(d.coeff)
        drop == n + m - prec
    IN  IF drop <= m
        THEN Decimal(d.sign, d.coeff, d.exp + m)
        ELSE Decimal(d.sign, RoundHalfEven(d.coeff, drop - m), d.exp + drop)

(* c * 10^e > MAX_WEI = 2**256 - 1, for a coefficient of at most ten digits. *)
AboveMaxWei(c, e) ==
    LET n == NumDigits(c)
    IN  /\ c > 0
        /\ \/ n + e > MaxWeiDigits
           \/ /\ n + e = MaxWeiDigits
              /\ c > MaxWeiLead \div Pow10(10 - n)

(* int(result_value): truncation toward zero. *)
IntOfDecimal(d) ==
    IF d.exp >= 0 THEN WireInt(d.coeff, d.exp)
    ELSE IF -d.exp > 9 THEN WireInt(0, 0)
    ELSE WireInt(d.coeff \div Pow10(-d.exp), 0)

Ok(v)  == [ok |-> TRUE, value |-> v]
Err(e) == [ok |-> FALSE, exc |-> e]

(* eth_utils.to_wei(number, unit) for a Decimal number and a unit of
   10^decimals wei. *)
to_wei(d, decimals) ==
    LET s == StrOfDecimal(d)
        scaled == IF LessThanOne(d) /\ s.dot
                  THEN [num  |-> MulPow10(d, s.after, s.after),
                        unit |-> decimals - s.after]
                  ELSE [num |-> d, unit |-> decimals]
        res == Decimal(d.sign, scaled.num.coeff, scaled.num.exp + scaled.unit)
    IN  IF IsZero(d) THEN Ok(WireInt(0, 0))
        ELSE IF IsNegative(res) \/ (res.exp >= 0 /\ AboveMaxWei(res.coeff, res.exp))
        THEN Err("ValueError")
        ELSE Ok(IntOfDecimal(res))

ToWeiGwei(d) == to_wei(d, 9)

(* SynapseClient._to_wei *)
ToWei(d) == to_wei(d, EtherDecimals)

(* eth_utils.from_wei(number, unit) for the integer x = c * 10^e: 0 for 0,
   ValueError above MAX_WEI, else Decimal(x) / Decimal(10^decimals) in a
   context of 999 digits.  The quotient is exact; Decimal division takes
   zeros off the end of its coefficient as long as the exponent is below 0.
   An integer quotient c * 10^k has coefficient c * 10^k and exponent 0 in
   Python; it is kept here as coefficient c and exponent k, the same number,
   because the coefficient would not fit machine integers.  _from_wei passes
   the result through str and Decimal, which give the same Decimal again
   (and Decimal('0') for the integer 0). *)
from_wei(x, decimals) ==
    IF x.c = 0 THEN Ok(Decimal(0, 0, 0))
    ELSE IF AboveMaxWei(x.c, x.e) THEN Err("ValueError")
    ELSE Ok(Decimal(0, x.c, x.e - decimals))

FromWeiGwei(x) == from_wei(x, 9)

(* SynapseClient._from_wei *)
FromWei(x) == from_wei(x, EtherDecimals)

(* a == b of two Decimals: equality of the numbers, whatever the zeros at the
   end of the coefficients. *)
DecimalEq(a, b) ==
    \/ a.coeff = 0 /\ b.coeff = 0
    \/ /\ a.coeff # 0 /\ b.coeff # 0
       /\ a.sign = b.sign
       /\ a.coeff \div Pow10(TrailingZeros(a.coeff)) = b.coeff \div Pow10(TrailingZeros(b.coeff))
       /\ a.exp + TrailingZeros(a.coeff) = b.exp + TrailingZeros(b.coeff)

-----------------------------------------------------------------------------
(***************************************************************************)
(* Values handed to and returned by the client.                            *)
(***************************************************************************)

(* Keccak-256 of a value, and the hex text of a value.  A hash is kept as
   what was hashed, so that equal hashes are hashes of equal values and a hash
   of a hash differs from the hash. *)
Keccak(x) == [keccak |-> x]
Hex(h) == [hex |-> h]

(* Web3.keccak(primitive) / Web3.keccak(text=...) *)
keccak(x) == Keccak(x)

(* Web3.solidity_keccak(abi_types, values): one hash over the tight
   concatenation of the values; an address value is packed as its 20 bytes,
   however its text is capitalised. *)
solidity_keccak(values) == Keccak([packed |-> values])
AddressBytes(a) == a.hex

Keys == {"k1"}

(* What the client is constructed with besides the key: the provider of
   rpc_url and the addresses of the five contracts. *)
Endpoint == [rpc_url |-> "http://node"]
ContractAddresses ==
    [token |-> "0xt", payment_router |-> "0xr", reputation |-> "0xp",
     service_registry |-> "0xs", payment_channel |-> "0xc"]

(* Account.from_key(private_key).address *)
AddressOf(key) == [hex |-> key, form |-> "checksum"]

(* An address string: its hex digits and how they are written. *)
Address(h, f) == [hex |-> h, form |-> f]
AddressInputs == {Address("ab", "checksum"), Address("ab", "malformed")}
LowerAddress == Address("ab", "lower")

to_checksum_address_unchecked(a) == Ok(Address(a.hex, "checksum"))

(* Web3.to_checksum_address: ValueError unless the text is an address. *)
to_checksum_address(a) ==
    IF a.form = "malformed" THEN Err("ValueError")
    ELSE Ok(Address(a.hex, "checksum"))

(* Identifiers given as hex text, a sequence of characters. *)
HexDigits == {"0", "1", "f"}
HexInputs == {<<"0", "x", "1", "f">>, <<"1", "f">>, <<"0", "x", "z">>}

(* str.replace("0x", "") *)
RECURSIVE Replace0x(_)
Replace0x(s) ==
    IF Len(s) < 2 THEN s
    ELSE IF s[1] = "0" /\ s[2] = "x" THEN Replace0x(SubSeq(s, 3, Len(s)))
    ELSE <<s[1]>> \o Replace0x(SubSeq(s, 2, Len(s)))

(* bytes.fromhex: ValueError unless the text is pairs of hex digits. *)
fromhex(s) ==
    IF Len(s) % 2 = 0 /\ \A i \in 1..Len(s) : s[i] \in HexDigits
    THEN Ok([bytes |-> s])
    ELSE Err("ValueError")

AmountInputs == {Decimal(0, 105, -1), Decimal(1, 1, 0)}   \* "10.5", "-1"
RatingInputs == {0, 1, 5, 6}
GasPrices == {1, 2}
Statuses == {0, 1}

WriteOps ==
    {"transfer", "approve", "pay", "batch_pay", "create_escrow", "release_escrow",
     "create_stream", "register_agent", "increase_stake", "create_dispute",
     "rate_service", "register_service", "request_quote", "accept_quote",
     "open_channel"}

(* The contract function each write operation calls. *)
ContractFn(op) ==
    CASE op = "transfer" -> "transfer"
      [] op = "approve" -> "approve"
      [] op = "pay" -> "pay"
      [] op = "batch_pay" -> "batchPay"
      [] op = "create_escrow" -> "createEscrow"
      [] op = "release_escrow" -> "releaseEscrow"
      [] op = "create_stream" -> "createStream"
      [] op = "register_agent" -> "registerAgent"
      [] op = "increase_stake" -> "increaseStake"
      [] op = "create_dispute" -> "createDispute"
      [] op = "rate_service" -> "rateService"
      [] op = "register_service" -> "registerService"
      [] op = "request_quote" -> "requestQuote"
      [] op = "accept_quote" -> "acceptQuote"
      [] op = "open_channel" -> "openChannel"

(* Arguments of a call: the addresses, amounts, rating and hex identifier the
   operation takes, in the order the code evaluates them.  Names, categories,
   URIs and metadata are passed to the contract unchanged and are left out. *)
Args(addrs, amounts, rating, id) ==
    [addrs |-> addrs, amounts |-> amounts, rating |-> rating, id |-> id,
     ints |-> <<>>, payment_id |-> Nothing]

(* ... with the integer arguments (deadline; start_time, end_time) and the
   optional payment_id of pay and create_escrow, None when it is left out. *)
With(args, ints, payment_id) ==
    [args EXCEPT !.ints = ints, !.payment_id = payment_id]

IdOps == {"release_escrow", "request_quote", "accept_quote"}

Seq1(S) == {<<x>> : x \in S}
Seq2(S) == {<<x, y>> : x \in S, y \in S}

(* The payments lists given to batch_pay. *)
BatchInputs ==
    LET good == <<LowerAddress, Decimal(0, 105, -1)>>
    IN  {<<>>, <<good>>, <<good, good>>,
         <<good, <<Address("ab", "malformed"), Decimal(0, 105, -1)>>>>,
         <<good, <<LowerAddress, Decimal(1, 1, 0)>>>>}

PaymentIdInputs == {[bytes |-> <<"1", "f">>]}
DeadlineInputs == {100, 200}
TimeInputs == {<<1, 2>>, <<1, 3>>, <<2, 3>>}
Times == {1, 2}              \* int(time.time()) when a call is made

Base1 == {Args(a, m, None, None) : a \in Seq1(AddressInputs), m \in Seq1(AmountInputs)}
Base2 == {Args(a, m, None, None) : a \in Seq2(AddressInputs), m \in Seq1(AmountInputs)}
Valid1 == Args(<<Address("ab", "checksum")>>, <<Decimal(0, 105, -1)>>, None, None)
Valid2 == Args(<<Address("ab", "checksum"), Address("ab", "checksum")>>,
               <<Decimal(0, 105, -1)>>, None, None)

Inputs(op) ==
    CASE op \in {"transfer", "approve"} -> Base1
      [] op = "pay" ->
             Base1 \cup {With(Valid1, <<>>, p) : p \in PaymentIdInputs}
      [] op = "create_stream" ->
             {With(x, <<1, 2>>, Nothing) : x \in Base1}
                 \cup {With(Valid1, ts, Nothing) : ts \in TimeInputs}
                 \cup {With([Valid1 EXCEPT !.addrs = <<LowerAddress>>], <<1, 2>>, Nothing)}
      [] op = "batch_pay" ->
             {Args([i \in 1..Len(b) |-> b[i][1]], [i \in 1..Len(b) |-> b[i][2]], None, None) :
                  b \in BatchInputs}
      [] op = "create_escrow" ->
             {With(x, <<100>>, Nothing) : x \in Base2}
                 \cup {With(Valid2, <<d>>, p) :
                           d \in DeadlineInputs, p \in PaymentIdInputs \cup {Nothing}}
      [] op \in IdOps ->
             {Args(<<>>, <<>>, None, h) : h \in HexInputs}
      [] op \in {"register_agent", "increase_stake", "register_service"} ->
             {Args(<<>>, m, None, None) : m \in Seq1(AmountInputs)}
      [] op = "create_dispute" ->
             {Args(a, <<>>, None, None) : a \in Seq1(AddressInputs)}
      [] op = "rate_service" ->
             {Args(a, <<>>, r, None) : a \in Seq1(AddressInputs), r \in RatingInputs}
      [] op = "open_channel" ->
             {Args(a, m, None, None) :
                  a \in Seq1(AddressInputs \cup {LowerAddress}), m \in Seq2(AmountInputs)}

RatingOkExclusive(rating) == 1 < rating /\ rating < 5

(* rate_service: if not 1 <= rating <= 5: raise ValueError *)
RatingOk(rating) == 1 <= rating /\ rating <= 5

(* batch_pay: [Web3.keccak(text=f"batch-{int(time.time())}-{i}")
                for i in range(len(payments))] *)
BatchPaymentIds(n, now) ==
    [i \in 1..n |-> keccak([text |-> <<"batch-", now, "-", i - 1>>])]

DefaultPaymentIdNoTime(op, now) ==
    keccak([text |-> <<IF op = "pay" THEN "pay-" ELSE "escrow-">>])

(* pay: Web3.keccak(text=f"pay-{int(time.time())}"); create_escrow:
   Web3.keccak(text=f"escrow-{int(time.time())}"), when payment_id is None. *)
DefaultPaymentId(op, now) ==
    keccak([text |-> <<IF op = "pay" THEN "pay-" ELSE "escrow-", now>>])

(* func = contract.functions.<fn>(...): the argument expressions are evaluated
   before anything is sent; the first one that raises ends the call. *)
ContractCall(op, args, now) ==
    LET payment_id == IF args.payment_id # Nothing THEN args.payment_id
                      ELSE DefaultPaymentId(op, now)
        sums == [i \in 1..Len(args.addrs) |-> to_checksum_address(args.addrs[i])]
        weis == [i \in 1..Len(args.amounts) |-> ToWei(args.amounts[i])]
        raw  == IF op \in IdOps THEN fromhex(Replace0x(args.id)) ELSE Ok(None)
        a    == [i \in 1..Len(sums) |-> sums[i].value]
        w    == [i \in 1..Len(weis) |-> weis[i].value]
    IN  IF op = "rate_service" /\ ~RatingOk(args.rating) THEN Err("ValueError")
        ELSE IF \E i \in 1..Len(sums) : ~sums[i].ok THEN Err("ValueError")
        ELSE IF \E i \in 1..Len(weis) : ~weis[i].ok THEN Err("ValueError")
        ELSE IF ~raw.ok THEN Err("ValueError")
        ELSE Ok([fn |-> ContractFn(op), addrs |-> a, weis |-> w]
                @@ (CASE op = "rate_service" -> [rating |-> args.rating]
                      [] op \in IdOps -> [id |-> raw.value]
                      [] op = "pay" -> [payment_id |-> payment_id]
                      [] op = "batch_pay" ->
                             [payment_ids |-> BatchPaymentIds(Len(args.addrs), now),
                              metadata |-> <<>>]
                      [] op = "create_escrow" ->
                             [deadline |-> args.ints[1], payment_id |-> payment_id]
                      [] op = "create_stream" ->
                             [start_time |-> args.ints[1], end_time |-> args.ints[2]]
                      [] OTHER -> [fn |-> ContractFn(op)]))

(* Exceptions.  tx_hash is the attribute TransactionFailedError declares. *)
Exception(type, message) == [type |-> type, message |-> message, tx_hash |-> Nothing]

(* exceptions.TransactionFailedError.__init__(message, tx_hash=None) *)
TransactionFailedError(message, tx_hash) ==
    [type |-> "TransactionFailedError", message |-> message, tx_hash |-> tx_hash]

Returned(v) == [kind |-> "return", value |-> v, exc |-> Nothing]
Raised(e)   == [kind |-> "raise", value |-> Nothing, exc |-> e]
NoResult    == [kind |-> "none", value |-> Nothing, exc |-> Nothing]

SignTransaction(key, t) == [tx |-> t, signer |-> key]
TxHash(t) == Keccak(SignTransaction(account, t))


NoCall == [op |-> None, args |-> None]
NoFunc == [fn |-> None]
NoTx   == [none |-> TRUE]
NoNames == [reflected |-> None, static |-> None]
NoLocals == [key |-> 0, tx_hashes |-> <<>>]

-----------------------------------------------------------------------------
(***************************************************************************)
(* Initial state: the client as constructed, with or without a private     *)
(* key; an account nobody has used; no call in progress.                   *)
(***************************************************************************)

InitCalls ==
    /\ account \in Keys \cup {None}
    /\ w3 = Endpoint
    /\ pc = [t \in Threads |-> "idle"]
    /\ call = [t \in Threads |-> NoCall]
    /\ func = [t \in Threads |-> NoFunc]
    /\ tx = [t \in Threads |-> NoTx]
    /\ result = [t \in Threads |-> NoResult]
    /\ rpcLog = [t \in Threads |-> <<>>]
    /\ sends = [t \in Threads |-> 0]
    /\ builds = [t \in Threads |-> 0]
    /\ outcome = [t \in Threads |-> "none"]
    /\ minedAtBuild = [t \in Threads |-> 0]
    /\ locals = [t \in Threads |-> NoLocals]
    /\ calls = 0
    /\ txCount = 0
    /\ mempool = {}
    /\ receipts = {}
    /\ signLog = <<>>
    /\ signResult = NoResult
    /\ signCall = Nothing

InitClient ==
    /\ InitCalls
    /\ contracts = ContractAddresses

Init ==
    /\ InitClient
    /\ amount = Decimal(0, 0, 0)
    /\ wei = NoResult
    /\ wire = Nothing
    /\ display = NoResult
    /\ lookup = Nothing
    /\ names = NoNames

-----------------------------------------------------------------------------
(***************************************************************************)
(* Write operations.  Every one of them is                                 *)
(*     func = <contract>.functions.<fn>(<validated arguments>)             *)
(*     tx = self._build_tx(func)                                           *)
(*     return self._send_tx(tx)                                            *)
(* and the blocking RPC requests inside are the points where calls of      *)
(* other threads and the chain interleave.                                 *)
(***************************************************************************)

(* The call of thread t ends by raising e. *)
Raise(t, e) ==
    /\ pc' = [pc EXCEPT ![t] = "done"]
    /\ result' = [result EXCEPT ![t] = Raised(e)]

(* A write operation is called: the contract call is encoded from the
   arguments (client.py:219-222 and alike), or the call ends in the
   exception the validation raised. *)
Call(t) ==
    /\ pc[t] = "idle"
    /\ calls < MaxCalls
    /\ \E op \in WriteOps : \E args \in Inputs(op) :
          \E now \in Times :
          LET f == ContractCall(op, args, now)
          IN  /\ call' = [call EXCEPT ![t] = [op |-> op, args |-> args]]
              /\ IF f.ok
                 THEN /\ func' = [func EXCEPT ![t] = f.value]
                      /\ pc' = [pc EXCEPT ![t] = "build"]
                      /\ UNCHANGED <<result, outcome>>
                 ELSE /\ Raise(t, Exception(f.exc, "invalid argument"))
                      /\ outcome' = [outcome EXCEPT ![t] = "invalid"]
                      /\ UNCHANGED func
    /\ calls' = calls + 1
    /\ UNCHANGED <<account, w3, contracts, locals, tx, rpcLog, sends, builds, minedAtBuild>>
    /\ UNCHANGED <<chainVars, signVars, codecVars, nameVars>>

AddressNoCheck == Ok(AddressOf(account))

(* The address property: SynapseError when no account is connected. *)
AddressProperty ==
    IF account = None THEN Err("SynapseError") ELSE Ok(AddressOf(account))

GetTransactionCountPending == txCount + Cardinality(mempool)
GetTransactionCountParent == IF txCount = 0 THEN txCount ELSE txCount - 1

(* self.w3.eth.get_transaction_count(self.address): the count of the latest
   block, i.e. of the mined transactions. *)
GetTransactionCount == txCount

(* _build_tx: the dictionary {'from', 'nonce', 'gas', 'gasPrice', 'value'} is
   evaluated key by key, self.address first, then the two chain queries. *)
BuildTx(t) ==
    /\ pc[t] = "build"
    /\ builds' = [builds EXCEPT ![t] = @ + 1]
    /\ IF ~AddressProperty.ok
       THEN /\ Raise(t, Exception(AddressProperty.exc, "No account connected"))
            /\ outcome' = [outcome EXCEPT ![t] = "no_account"]
            /\ UNCHANGED <<tx, rpcLog, minedAtBuild>>
       ELSE \E gasPrice \in GasPrices :
            /\ tx' = [tx EXCEPT ![t] =
                         [from |-> AddressProperty.value,
                          nonce |-> GetTransactionCount,
                          gas |-> Gas,
                          gasPrice |-> gasPrice,
                          value |-> 0,
                          data |-> func[t]]]
            /\ rpcLog' = [rpcLog EXCEPT ![t] =
                             @ \o <<"eth_getTransactionCount", "eth_gasPrice">>]
            /\ minedAtBuild' = [minedAtBuild EXCEPT ![t] = Cardinality(receipts)]
            /\ pc' = [pc EXCEPT ![t] = "send"]
            /\ UNCHANGED <<result, outcome>>
    /\ UNCHANGED <<account, w3, contracts, locals, call, func, sends, calls>>
    /\ UNCHANGED <<chainVars, signVars, codecVars, nameVars>>

(* _build_tx when a chain query fails in the transport: the error of the
   first or of the second query reaches the caller. *)
BuildTxError(t) ==
    /\ pc[t] = "build"
    /\ AddressProperty.ok
    /\ builds' = [builds EXCEPT ![t] = @ + 1]
    /\ \E k \in 1..2 :
          rpcLog' = [rpcLog EXCEPT ![t] =
              @ \o SubSeq(<<"eth_getTransactionCount", "eth_gasPrice">>, 1, k)]
    /\ Raise(t, Exception("ConnectionError", "transport"))
    /\ outcome' = [outcome EXCEPT ![t] = "transport"]
    /\ UNCHANGED <<account, w3, contracts, locals, call, func, tx, sends, minedAtBuild, calls>>
    /\ UNCHANGED <<chainVars, signVars, codecVars, nameVars>>

(* The node takes transaction x into its pool: its nonce is not used up, it
   is not known already, and a pending transaction of the same nonce is
   replaced only by a higher gas price. *)
Admissible(x) ==
    /\ x.nonce >= txCount
    /\ x \notin mempool
    /\ \A y \in mempool : y.nonce = x.nonce => y.gasPrice < x.gasPrice

PoolWith(x) == {y \in mempool : y.nonce # x.nonce} \cup {x}

(* _send_tx, first half: sign_transaction and send_raw_transaction.  The node
   accepts the transaction or answers with an error (ValueError in web3), or
   the transport fails, with the transaction delivered or not. *)
SendTx(t) ==
    /\ pc[t] = "send"
    /\ IF account = None
       THEN /\ Raise(t, Exception("AttributeError", "sign_transaction"))
            /\ outcome' = [outcome EXCEPT ![t] = "no_account"]
            /\ UNCHANGED <<rpcLog, sends, mempool>>
       ELSE /\ sends' = [sends EXCEPT ![t] = @ + 1]
            /\ rpcLog' = [rpcLog EXCEPT ![t] = Append(@, "eth_sendRawTransaction")]
            /\ \/ /\ Admissible(tx[t])
                  /\ mempool' = PoolWith(tx[t])
                  /\ pc' = [pc EXCEPT ![t] = "wait"]
                  /\ outcome' = [outcome EXCEPT ![t] = "sent"]
                  /\ UNCHANGED result
               \/ /\ ~Admissible(tx[t])
                  /\ Raise(t, Exception("ValueError", "rpc error"))
                  /\ outcome' = [outcome EXCEPT ![t] = "rejected"]
                  /\ UNCHANGED mempool
               \/ /\ \E delivered \in BOOLEAN :
                        mempool' = IF delivered /\ Admissible(tx[t])
                                   THEN PoolWith(tx[t]) ELSE mempool
                  /\ Raise(t, Exception("ConnectionError", "transport"))
                  /\ outcome' = [outcome EXCEPT ![t] = "transport"]
    /\ UNCHANGED <<account, w3, contracts, locals, call, func, tx, builds, minedAtBuild, calls>>
    /\ UNCHANGED <<txCount, receipts, signVars, codecVars, nameVars>>

(* approve_all: max_amount = 2**256 - 1, given to approve as it is *)
MaxUint256 == [max_uint256 |-> TRUE]

(* for key in ['payment_router', 'reputation', 'service_registry',
               'payment_channel'] *)
ApprovalKeys == <<"payment_router", "reputation", "service_registry", "payment_channel">>

(* if self.contracts.get(key) *)
Configured(k) == contracts[ApprovalKeys[k]] # None

NextKeyNoSkip(k) == IF k < Len(ApprovalKeys) THEN k + 1 ELSE 0

(* The next key of the loop after the k-th whose contract is configured, 0
   when the loop is over. *)
NextKey(k) ==
    IF \E i \in (k + 1)..Len(ApprovalKeys) : Configured(i)
    THEN CHOOSE i \in (k + 1)..Len(ApprovalKeys) :
             Configured(i) /\ \A j \in (k + 1)..(i - 1) : ~Configured(j)
    ELSE 0

(* self.token.functions.approve(
       Web3.to_checksum_address(self.contracts[key]), max_amount) *)
ApproveFunc(k) ==
    [fn |-> "approve",
     addrs |-> <<to_checksum_address(
                     Address(contracts[ApprovalKeys[k]], "checksum")).value>>,
     weis |-> <<MaxUint256>>]

ReceiptOf(h) == {r \in receipts : r.hash = h}

StatusFailedNever(receipt) == FALSE

(* if receipt['status'] != 1 *)
StatusFailed(receipt) == receipt.status # 1

ReturnValueFromLogs(c, f, h) ==
    CASE c.op = "pay" ->
             [tx_hash |-> Hex(h), payment_id |-> Hex(f.payment_id)]
      [] c.op = "create_escrow" ->
             [tx_hash |-> Hex(h),
              escrow_id |-> Hex(keccak(solidity_keccak(
                  <<AddressBytes(AddressOf(account)), AddressBytes(c.args.addrs[1]),
                    f.payment_id, c.args.ints[1]>>))),
              payment_id |-> Hex(f.payment_id)]
      [] c.op = "create_stream" ->
             [tx_hash |-> Hex(h),
              stream_id |-> Hex(keccak(solidity_keccak(
                  <<AddressBytes(AddressOf(account)), AddressBytes(c.args.addrs[1]),
                    c.args.ints[1], c.args.ints[2]>>)))]
      [] c.op = "create_dispute" ->
             [tx_hash |-> Hex(h), dispute_id |-> Hex(Keccak([log |-> h]))]
      [] c.op = "register_service" ->
             [tx_hash |-> Hex(h), service_id |-> Hex(Keccak([log |-> h]))]
      [] c.op = "request_quote" ->
             [tx_hash |-> Hex(h), quote_id |-> Hex(Keccak([log |-> h]))]
      [] OTHER -> [tx_hash |-> Hex(h)]

(* What a write operation returns once _send_tx has returned tx_hash.hex():
   the hash text, in a dictionary with the identifiers pay, create_escrow and
   create_stream add.  c is the call, f the contract call encoded for it.
   create_escrow and create_stream apply Web3.keccak to the result of
   Web3.solidity_keccak; recipient is the argument as the caller wrote it.
   create_dispute, register_service and request_quote set their identifier to
   None ("Would need to parse events"). *)
ReturnValue(c, f, h) ==
    CASE c.op = "pay" ->
             [tx_hash |-> Hex(h), payment_id |-> Hex(f.payment_id)]
      [] c.op = "create_escrow" ->
             [tx_hash |-> Hex(h),
              escrow_id |-> Hex(keccak(solidity_keccak(
                  <<AddressBytes(AddressOf(account)), AddressBytes(c.args.addrs[1]),
                    f.payment_id, c.args.ints[1]>>))),
              payment_id |-> Hex(f.payment_id)]
      [] c.op = "create_stream" ->
             [tx_hash |-> Hex(h),
              stream_id |-> Hex(keccak(solidity_keccak(
                  <<AddressBytes(AddressOf(account)), AddressBytes(c.args.addrs[1]),
                    c.args.ints[1], c.args.ints[2]>>)))]
      [] c.op = "create_dispute" -> [tx_hash |-> Hex(h), dispute_id |-> Nothing]
      [] c.op = "register_service" -> [tx_hash |-> Hex(h), service_id |-> Nothing]
      [] c.op = "request_quote" -> [tx_hash |-> Hex(h), quote_id |-> Nothing]
      [] OTHER -> [tx_hash |-> Hex(h)]

ReceiptFailedResend(t, h) ==
    /\ pc' = [pc EXCEPT ![t] = "send"]
    /\ UNCHANGED result

(* raise TransactionFailedError(f"Transaction failed: {tx_hash.hex()}") *)
ReceiptFailed(t, h) ==
    Raise(t, TransactionFailedError(<<"Transaction failed: ", Hex(h)>>, Nothing))

(* _send_tx, second half: wait_for_transaction_receipt has returned the
   receipt of the transaction; its status decides between raise and return.
   open_channel goes on to ask the contract for the channel id; approve_all
   appends the hash to tx_hashes and goes on with the next configured
   contract, or returns tx_hashes after the last one. *)
WaitReceipt(t) ==
    /\ pc[t] = "wait"
    /\ \E r \in ReceiptOf(TxHash(tx[t])) :
          IF StatusFailed(r)
          THEN /\ ReceiptFailed(t, TxHash(tx[t]))
               /\ outcome' = [outcome EXCEPT ![t] = "receipt_failed"]
               /\ UNCHANGED <<func, locals>>
          ELSE /\ outcome' = [outcome EXCEPT ![t] = "receipt_ok"]
               /\ IF call[t].op = "open_channel"
                  THEN /\ pc' = [pc EXCEPT ![t] = "post"]
                       /\ UNCHANGED <<result, func, locals>>
                  ELSE IF call[t].op = "approve_all"
                  THEN LET hashes == Append(locals[t].tx_hashes, Hex(TxHash(tx[t])))
                           key == NextKey(locals[t].key)
                       IN  /\ locals' = [locals EXCEPT ![t] =
                                  [key |-> key, tx_hashes |-> hashes]]
                           /\ IF key # 0
                              THEN /\ func' = [func EXCEPT ![t] = ApproveFunc(key)]
                                   /\ pc' = [pc EXCEPT ![t] = "build"]
                                   /\ UNCHANGED result
                              ELSE /\ pc' = [pc EXCEPT ![t] = "done"]
                                   /\ result' = [result EXCEPT ![t] = Returned(hashes)]
                                   /\ UNCHANGED func
                  ELSE /\ pc' = [pc EXCEPT ![t] = "done"]
                       /\ result' = [result EXCEPT ![t] =
                              Returned(ReturnValue(call[t], func[t], TxHash(tx[t])))]
                       /\ UNCHANGED <<func, locals>>
    /\ rpcLog' = [rpcLog EXCEPT ![t] = Append(@, "eth_getTransactionReceipt")]
    /\ UNCHANGED <<account, w3, contracts, call, tx, sends, builds, minedAtBuild, calls>>
    /\ UNCHANGED <<chainVars, signVars, codecVars, nameVars>>

WaitTimeoutAsFailure(t) ==
    /\ pc[t] = "wait"
    /\ ReceiptOf(TxHash(tx[t])) = {}
    /\ Raise(t, TransactionFailedError(<<"Transaction failed: ", Hex(TxHash(tx[t]))>>, Nothing))
    /\ outcome' = [outcome EXCEPT ![t] = "timeout"]
    /\ rpcLog' = [rpcLog EXCEPT ![t] = Append(@, "eth_getTransactionReceipt")]
    /\ UNCHANGED <<account, w3, contracts, locals, call, func, tx, sends, builds, minedAtBuild, calls>>
    /\ UNCHANGED <<chainVars, signVars, codecVars, nameVars>>

(* wait_for_transaction_receipt finds no receipt within its timeout (120 s by
   default) and raises web3's TimeExhausted, which _send_tx does not catch.
   Nothing is done about the transaction that was sent. *)
WaitTimeout(t) ==
    /\ pc[t] = "wait"
    /\ ReceiptOf(TxHash(tx[t])) = {}
    /\ Raise(t, Exception("TimeExhausted", "not in the chain after 120 seconds"))
    /\ outcome' = [outcome EXCEPT ![t] = "timeout"]
    /\ rpcLog' = [rpcLog EXCEPT ![t] = Append(@, "eth_getTransactionReceipt")]
    /\ UNCHANGED <<account, w3, contracts, locals, call, func, tx, sends, builds, minedAtBuild, calls>>
    /\ UNCHANGED <<chainVars, signVars, codecVars, nameVars>>

(* The transport fails while the receipt is polled. *)
WaitError(t) ==
    /\ pc[t] = "wait"
    /\ Raise(t, Exception("ConnectionError", "transport"))
    /\ outcome' = [outcome EXCEPT ![t] = "transport"]
    /\ rpcLog' = [rpcLog EXCEPT ![t] = Append(@, "eth_getTransactionReceipt")]
    /\ UNCHANGED <<account, w3, contracts, locals, call, func, tx, sends, builds, minedAtBuild, calls>>
    /\ UNCHANGED <<chainVars, signVars, codecVars, nameVars>>

(* PaymentChannel.getChannelId(party1, party2) of the contract: the id of the
   channel of the unordered pair of participants, a hash over the pair put in
   canonical order. *)
getChannelId(party1, party2) ==
    Keccak([pair |-> {AddressBytes(party1), AddressBytes(party2)}])

(* open_channel after its transaction is confirmed:
   payment_channel.functions.getChannelId(self.address, counterparty).call().
   counterparty is passed as the caller wrote it; web3 takes only checksum
   addresses as contract arguments and raises InvalidAddress for others.  The
   call can fail in the transport. *)
GetChannelId(t) ==
    /\ pc[t] = "post"
    /\ LET counterparty == call[t].args.addrs[1]
           h == TxHash(tx[t])
       IN  IF counterparty.form # "checksum"
           THEN /\ Raise(t, Exception("InvalidAddress", "not a checksum address"))
                /\ outcome' = [outcome EXCEPT ![t] = "invalid"]
                /\ UNCHANGED rpcLog
           ELSE /\ rpcLog' = [rpcLog EXCEPT ![t] = Append(@, "eth_call")]
                /\ \/ /\ pc' = [pc EXCEPT ![t] = "done"]
                      /\ result' = [result EXCEPT ![t] = Returned(
                             [tx_hash |-> Hex(h),
                              channel_id |-> Hex(getChannelId(
                                  AddressProperty.value, counterparty))])]
                      /\ outcome' = [outcome EXCEPT ![t] = "read"]
                   \/ /\ Raise(t, Exception("ConnectionError", "transport"))
                      /\ outcome' = [outcome EXCEPT ![t] = "transport"]
    /\ UNCHANGED <<account, w3, contracts, locals, call, func, tx, sends, builds, minedAtBuild, calls>>
    /\ UNCHANGED <<chainVars, signVars, codecVars, nameVars>>

(* The caller has the result of the call and the thread is free again. *)
Return(t) ==
    /\ pc[t] = "done"
    /\ pc' = [pc EXCEPT ![t] = "idle"]
    /\ call' = [call EXCEPT ![t] = NoCall]
    /\ func' = [func EXCEPT ![t] = NoFunc]
    /\ tx' = [tx EXCEPT ![t] = NoTx]
    /\ result' = [result EXCEPT ![t] = NoResult]
    /\ rpcLog' = [rpcLog EXCEPT ![t] = <<>>]
    /\ sends' = [sends EXCEPT ![t] = 0]
    /\ builds' = [builds EXCEPT ![t] = 0]
    /\ outcome' = [outcome EXCEPT ![t] = "none"]
    /\ minedAtBuild' = [minedAtBuild EXCEPT ![t] = 0]
    /\ locals' = [locals EXCEPT ![t] = NoLocals]
    /\ UNCHANGED <<account, w3, contracts, calls, chainVars, signVars, codecVars, nameVars>>

(* Addresses given to get_channel, and the channels(channel_id) tuples the
   contract answers with: no such channel, or an open one. *)
PartyInputs ==
    {Address("k1", "checksum"), Address("ab", "checksum"), Address("ab", "malformed")}
ZeroAddress == Address("00", "checksum")
ChannelData ==
    {<<ZeroAddress, ZeroAddress, WireInt(0, 0), WireInt(0, 0), 0, 0, 0>>,
     <<Address("k1", "checksum"), Address("ab", "checksum"),
       WireInt(105, 17), WireInt(0, 0), 3, 1, 0>>,
     <<Address("k1", "checksum"), Address("ab", "checksum"),
       WireInt(105, 17), WireInt(0, 0), 4, 2, 1700>>}

(* The constant classes of constants.py as Python sees them: the entries of
   cls.__dict__ in definition order.  An entry is the attribute's name, whether
   the name starts with an underscore, and its value: an int, or an object
   that equals no int (the classmethods, the module name, the docstring). *)
IntValue(n) == [int |-> n]
ObjectValue(o) == [object |-> o]
Attr(name, value) == [name |-> name, underscore |-> FALSE, value |-> value]
Dunder(name) == [name |-> name, underscore |-> TRUE, value |-> ObjectValue(name)]

TierDict ==
    <<Dunder("__module__"), Dunder("__doc__"),
      Attr("UNVERIFIED", IntValue(0)), Attr("BRONZE", IntValue(1)),
      Attr("SILVER", IntValue(2)), Attr("GOLD", IntValue(3)),
      Attr("PLATINUM", IntValue(4)), Attr("DIAMOND", IntValue(5)),
      Attr("get_name", ObjectValue("classmethod get_name")),
      Attr("get_discount", ObjectValue("classmethod get_discount")),
      Dunder("__dict__"), Dunder("__weakref__")>>

PricingModelDict ==
    <<Dunder("__module__"), Dunder("__doc__"),
      Attr("PER_REQUEST", IntValue(0)), Attr("PER_TOKEN", IntValue(1)),
      Attr("PER_SECOND", IntValue(2)), Attr("PER_BYTE", IntValue(3)),
      Attr("SUBSCRIPTION", IntValue(4)), Attr("CUSTOM", IntValue(5)),
      Attr("get_name", ObjectValue("classmethod get_name")),
      Dunder("__dict__"), Dunder("__weakref__")>>

ChannelStatusDict ==
    <<Dunder("__module__"), Dunder("__doc__"),
      Attr("NONE", IntValue(0)), Attr("OPEN", IntValue(1)),
      Attr("CLOSING", IntValue(2)), Attr("CLOSED", IntValue(3)),
      Attr("get_name", ObjectValue("classmethod get_name")),
      Dunder("__dict__"), Dunder("__weakref__")>>

ClassDict(cls) ==
    CASE cls = "Tier" -> TierDict
      [] cls = "PricingModel" -> PricingModelDict
      [] cls = "ChannelStatus" -> ChannelStatusDict

ReflectNamesNotInverted(d) ==
    LET kept == {i \in 1..Len(d) : ~d[i].underscore}
    IN  [k \in {ObjectValue(d[i].name) : i \in kept} |->
             d[CHOOSE i \in kept : d[i].name = k.object].value]

(* {v: k for k, v in cls.__dict__.items() if not k.startswith('_')}: the
   dictionary from the values of the public attributes to their names; of two
   attributes of one value the later one stays. *)
ReflectNames(d) ==
    LET kept == {i \in 1..Len(d) : ~d[i].underscore}
    IN  [v \in {d[i].value : i \in kept} |->
             d[CHOOSE i \in kept :
                   /\ d[i].value = v
                   /\ \A j \in kept : d[j].value = v => j <= i].name]

(* dict.get(key, default) *)
DictGet(m, key, default) == IF key \in DOMAIN m THEN m[key] ELSE default

(* tier_names.get(tier, "UNKNOWN"), pricing_names.get(service[6], "UNKNOWN")
   and status_names.get(channel[5], "UNKNOWN"), the dictionary built by
   reflection at each call. *)
ReflectedName(cls, value) ==
    DictGet(ReflectNames(ClassDict(cls)), IntValue(value), "UNKNOWN")

(* Tier.get_name, PricingModel.get_name, ChannelStatus.get_name: the literal
   dictionaries of constants.py. *)
TierNames ==
    (0 :> "UNVERIFIED") @@ (1 :> "BRONZE") @@ (2 :> "SILVER") @@ (3 :> "GOLD")
        @@ (4 :> "PLATINUM") @@ (5 :> "DIAMOND")
PricingModelNames ==
    (0 :> "PER_REQUEST") @@ (1 :> "PER_TOKEN") @@ (2 :> "PER_SECOND")
        @@ (3 :> "PER_BYTE") @@ (4 :> "SUBSCRIPTION") @@ (5 :> "CUSTOM")
ChannelStatusNames ==
    (0 :> "NONE") @@ (1 :> "OPEN") @@ (2 :> "CLOSING") @@ (3 :> "CLOSED")

get_name(cls, value) ==
    CASE cls = "Tier" -> DictGet(TierNames, value, "UNKNOWN")
      [] cls = "PricingModel" -> DictGet(PricingModelNames, value, "UNKNOWN")
      [] cls = "ChannelStatus" -> DictGet(ChannelStatusNames, value, "UNKNOWN")

(* status_names.get(channel[5], "UNKNOWN") over the names of ChannelStatus *)
StatusName(status) == ReflectedName("ChannelStatus", status)

ChannelInfoEndAlways(channel_id, channel) ==
    [channel_id |-> Hex(channel_id),
     participant1 |-> channel[1],
     participant2 |-> channel[2],
     balance1 |-> FromWei(channel[3]).value,
     balance2 |-> FromWei(channel[4]).value,
     nonce |-> channel[5],
     status |-> channel[6],
     status_name |-> StatusName(channel[6]),
     challenge_end |-> [int |-> channel[7]]]

(* ChannelInfo(...) of get_channel, from the tuple channels(channel_id)
   answered: participant1, participant2, balance1, balance2, nonce, status,
   challengeEnd. *)
ChannelInfo(channel_id, channel) ==
    [channel_id |-> Hex(channel_id),
     participant1 |-> channel[1],
     participant2 |-> channel[2],
     balance1 |-> FromWei(channel[3]).value,
     balance2 |-> FromWei(channel[4]).value,
     nonce |-> channel[5],
     status |-> channel[6],
     status_name |-> StatusName(channel[6]),
     challenge_end |-> IF channel[7] > 0 THEN [int |-> channel[7]] ELSE Nothing]

GetChannelPartiesFirstTwice(party1, party2) ==
    LET a == to_checksum_address(party1)
        b == to_checksum_address(party2)
    IN  IF ~a.ok \/ ~b.ok THEN Err("ValueError") ELSE Ok(<<a.value, a.value>>)

(* The arguments get_channel gives to getChannelId. *)
GetChannelParties(party1, party2) ==
    LET a == to_checksum_address(party1)
        b == to_checksum_address(party2)
    IN  IF ~a.ok \/ ~b.ok THEN Err("ValueError") ELSE Ok(<<a.value, b.value>>)

GetChannelFromCache(t) ==
    /\ pc[t] = "idle"
    /\ calls < MaxCalls
    /\ \E party1 \in PartyInputs, party2 \in PartyInputs :
          LET p == GetChannelParties(party1, party2)
          IN  /\ call' = [call EXCEPT ![t] =
                     [op |-> "get_channel",
                      args |-> Args(<<party1, party2>>, <<>>, None, None)]]
              /\ IF ~p.ok
                 THEN /\ result' = [result EXCEPT ![t] =
                             Raised(Exception(p.exc, "invalid argument"))]
                      /\ outcome' = [outcome EXCEPT ![t] = "invalid"]
                      /\ UNCHANGED <<rpcLog, func>>
                 ELSE \/ /\ \E channel \in ChannelData :
                               /\ func' = [func EXCEPT ![t] =
                                      [fn |-> "channels", answer |-> channel]]
                               /\ result' = [result EXCEPT ![t] = Returned(
                                      ChannelInfo(getChannelId(p.value[1], p.value[2]),
                                                  channel))]
                         /\ outcome' = [outcome EXCEPT ![t] = "read"]
                         /\ UNCHANGED rpcLog
                      \/ /\ \E k \in 1..2 :
                               rpcLog' = [rpcLog EXCEPT ![t] =
                                   @ \o SubSeq(<<"eth_call", "eth_call">>, 1, k)]
                         /\ result' = [result EXCEPT ![t] =
                                Raised(Exception("ConnectionError", "transport"))]
                         /\ outcome' = [outcome EXCEPT ![t] = "transport"]
                         /\ UNCHANGED func
    /\ pc' = [pc EXCEPT ![t] = "done"]
    /\ calls' = calls + 1
    /\ UNCHANGED <<account, w3, contracts, locals, tx, sends, builds, minedAtBuild>>
    /\ UNCHANGED <<chainVars, signVars, codecVars, nameVars>>

(* get_channel(party1, party2): two contract calls, getChannelId and
   channels(channel_id), and the ChannelInfo made of their answers; ValueError
   for a malformed address before any call; either call can fail in the
   transport.  func holds what channels(channel_id) answered. *)
GetChannel(t) ==
    /\ pc[t] = "idle"
    /\ calls < MaxCalls
    /\ \E party1 \in PartyInputs, party2 \in PartyInputs :
          LET p == GetChannelParties(party1, party2)
          IN  /\ call' = [call EXCEPT ![t] =
                     [op |-> "get_channel",
                      args |-> Args(<<party1, party2>>, <<>>, None, None)]]
              /\ IF ~p.ok
                 THEN /\ result' = [result EXCEPT ![t] =
                             Raised(Exception(p.exc, "invalid argument"))]
                      /\ outcome' = [outcome EXCEPT ![t] = "invalid"]
                      /\ UNCHANGED <<rpcLog, func>>
                 ELSE \/ /\ \E channel \in ChannelData :
                               /\ func' = [func EXCEPT ![t] =
                                      [fn |-> "channels", answer |-> channel]]
                               /\ result' = [result EXCEPT ![t] = Returned(
                                      ChannelInfo(getChannelId(p.value[1], p.value[2]),
                                                  channel))]
                         /\ outcome' = [outcome EXCEPT ![t] = "read"]
                         /\ rpcLog' = [rpcLog EXCEPT ![t] = @ \o <<"eth_call", "eth_call">>]
                      \/ /\ \E k \in 1..2 :
                               rpcLog' = [rpcLog EXCEPT ![t] =
                                   @ \o SubSeq(<<"eth_call", "eth_call">>, 1, k)]
                         /\ result' = [result EXCEPT ![t] =
                                Raised(Exception("ConnectionError", "transport"))]
                         /\ outcome' = [outcome EXCEPT ![t] = "transport"]
                         /\ UNCHANGED func
    /\ pc' = [pc EXCEPT ![t] = "done"]
    /\ calls' = calls + 1
    /\ UNCHANGED <<account, w3, contracts, locals, tx, sends, builds, minedAtBuild>>
    /\ UNCHANGED <<chainVars, signVars, codecVars, nameVars>>

(* The tuples services(service_id) answers with: no such service (every
   field zero), or a registered one. *)
ServiceData ==
    {<<ZeroAddress, "", "", "", "", WireInt(0, 0), 0, FALSE, 0>>,
     <<Address("k1", "checksum"), "llm", "language_model", "a model", "http://svc",
       WireInt(105, 17), 1, TRUE, 1700>>}

(* ServiceInfo(...) of get_service *)
ServiceInfo(service) ==
    [provider |-> service[1],
     name |-> service[2],
     category |-> service[3],
     description |-> service[4],
     endpoint |-> service[5],
     base_price |-> FromWei(service[6]).value,
     pricing_model |-> service[7],
     pricing_model_name |-> ReflectedName("PricingModel", service[7]),
     active |-> service[8],
     created_at |-> service[9]]

(* get_service(service_id): bytes.fromhex(service_id.replace("0x", "")) raises
   ValueError for text that is not pairs of hex digits, before any call; then
   one contract call, services(id), which can fail in the transport, and the
   ServiceInfo made of its answer.  func holds what services(id) answered. *)
GetService(t) ==
    /\ pc[t] = "idle"
    /\ calls < MaxCalls
    /\ \E service_id \in HexInputs :
          LET raw == fromhex(Replace0x(service_id))
          IN  /\ call' = [call EXCEPT ![t] =
                     [op |-> "get_service",
                      args |-> Args(<<>>, <<>>, None, service_id)]]
              /\ IF ~raw.ok
                 THEN /\ result' = [result EXCEPT ![t] =
                             Raised(Exception(raw.exc, "non-hexadecimal number"))]
                      /\ outcome' = [outcome EXCEPT ![t] = "invalid"]
                      /\ UNCHANGED <<rpcLog, func>>
                 ELSE /\ rpcLog' = [rpcLog EXCEPT ![t] = Append(@, "eth_call")]
                      /\ \/ /\ \E service \in ServiceData :
                                  /\ func' = [func EXCEPT ![t] =
                                         [fn |-> "services", answer |-> service]]
                                  /\ result' = [result EXCEPT ![t] =
                                         Returned(ServiceInfo(service))]
                            /\ outcome' = [outcome EXCEPT ![t] = "read"]
                         \/ /\ result' = [result EXCEPT ![t] =
                                   Raised(Exception("ConnectionError", "transport"))]
                            /\ outcome' = [outcome EXCEPT ![t] = "transport"]
                            /\ UNCHANGED func
    /\ pc' = [pc EXCEPT ![t] = "done"]
    /\ calls' = calls + 1
    /\ UNCHANGED <<account, w3, contracts, locals, tx, sends, builds, minedAtBuild>>
    /\ UNCHANGED <<chainVars, signVars, codecVars, nameVars>>

(* The chain: the pending transaction whose nonce is the account's next one
   is mined, succeeding or reverting; pending transactions of a used nonce
   are dropped. *)
Mine ==
    /\ \E x \in mempool :
          /\ x.nonce = txCount
          /\ \E status \in Statuses :
                receipts' = receipts \cup {[hash |-> TxHash(x), status |-> status]}
          /\ mempool' = {y \in mempool : y.nonce > x.nonce}
    /\ txCount' = txCount + 1
    /\ UNCHANGED <<account, w3, contracts, callVars, signVars, codecVars, nameVars>>

(* wait_for_transaction(tx_hash, timeout): a caller waits for a transaction
   it knows the hash of; the receipt, or TimeExhausted when there is none
   within the caller's timeout. *)
WaitForTransaction(t) ==
    /\ pc[t] = "idle"
    /\ calls < MaxCalls
    /\ \E h \in {TxHash(x) : x \in mempool} \cup {r.hash : r \in receipts} :
          /\ call' = [call EXCEPT ![t] = [op |-> "wait_for_transaction", args |-> Hex(h)]]
          /\ IF ReceiptOf(h) # {}
             THEN /\ \E r \in ReceiptOf(h) :
                        result' = [result EXCEPT ![t] = Returned(r)]
                  /\ outcome' = [outcome EXCEPT ![t] = "read"]
             ELSE /\ result' = [result EXCEPT ![t] =
                         Raised(Exception("TimeExhausted", "not in the chain after timeout"))]
                  /\ outcome' = [outcome EXCEPT ![t] = "timeout"]
    /\ pc' = [pc EXCEPT ![t] = "done"]
    /\ rpcLog' = [rpcLog EXCEPT ![t] = Append(@, "eth_getTransactionReceipt")]
    /\ calls' = calls + 1
    /\ UNCHANGED <<account, w3, contracts, locals, func, tx, sends, builds, minedAtBuild>>
    /\ UNCHANGED <<chainVars, signVars, codecVars, nameVars>>

Next ==
    \/ \E t \in Threads : Call(t)
    \/ \E t \in Threads : BuildTx(t)
    \/ \E t \in Threads : BuildTxError(t)
    \/ \E t \in Threads : SendTx(t)
    \/ \E t \in Threads : WaitReceipt(t)
    \/ \E t \in Threads : WaitTimeout(t)
    \/ \E t \in Threads : WaitError(t)
    \/ \E t \in Threads : GetChannelId(t)
    \/ \E t \in Threads : WaitForTransaction(t)
    \/ \E t \in Threads : GetChannel(t)
    \/ \E t \in Threads : Return(t)
    \/ Mine

Spec == Init /\ [][Next]_vars

-----------------------------------------------------------------------------
(***************************************************************************)
(* approve_all: one approval per configured contract, each through         *)
(* _build_tx and _send_tx, in a loop.                                      *)
(***************************************************************************)

(* The contracts a client is constructed with: the token and any of the four
   contracts approve_all goes through, or those without the token. *)
ContractConfigs ==
    {[ContractAddresses EXCEPT !.payment_router = a, !.reputation = b,
                               !.service_registry = c, !.payment_channel = d] :
         a \in {None, "0xr"}, b \in {None, "0xp"}, c \in {None, "0xs"},
         d \in {None, "0xc"}}
        \cup {[ContractAddresses EXCEPT !.token = None]}

InitApprove ==
    /\ InitCalls
    /\ contracts \in ContractConfigs
    /\ amount = Decimal(0, 0, 0)
    /\ wei = NoResult
    /\ wire = Nothing
    /\ display = NoResult
    /\ lookup = Nothing
    /\ names = NoNames

(* approve_all is called: tx_hashes = [] and the loop comes to its first
   configured key, where self.token is read (AttributeError when the client
   was constructed without the token contract); with no configured key the
   empty list is returned. *)
ApproveAll(t) ==
    /\ pc[t] = "idle"
    /\ calls < MaxApproveCalls
    /\ call' = [call EXCEPT ![t] =
           [op |-> "approve_all", args |-> Args(<<>>, <<>>, None, None)]]
    /\ LET key == NextKey(0)
       IN  IF key = 0
           THEN /\ pc' = [pc EXCEPT ![t] = "done"]
                /\ result' = [result EXCEPT ![t] = Returned(<<>>)]
                /\ UNCHANGED <<func, locals, outcome>>
           ELSE IF contracts.token = None
           THEN /\ Raise(t, Exception("AttributeError", "token"))
                /\ outcome' = [outcome EXCEPT ![t] = "invalid"]
                /\ UNCHANGED <<func, locals>>
           ELSE /\ func' = [func EXCEPT ![t] = ApproveFunc(key)]
                /\ locals' = [locals EXCEPT ![t] = [key |-> key, tx_hashes |-> <<>>]]
                /\ pc' = [pc EXCEPT ![t] = "build"]
                /\ UNCHANGED <<result, outcome>>
    /\ calls' = calls + 1
    /\ UNCHANGED <<account, w3, contracts, tx, rpcLog, sends, builds, minedAtBuild>>
    /\ UNCHANGED <<chainVars, signVars, codecVars, nameVars>>

NextApprove ==
    \/ \E t \in Threads : ApproveAll(t)
    \/ \E t \in Threads : BuildTx(t)
    \/ \E t \in Threads : BuildTxError(t)
    \/ \E t \in Threads : SendTx(t)
    \/ \E t \in Threads : WaitReceipt(t)
    \/ \E t \in Threads : WaitTimeout(t)
    \/ \E t \in Threads : WaitError(t)
    \/ \E t \in Threads : Return(t)
    \/ Mine

SpecApprove == InitApprove /\ [][NextApprove]_vars

(* The read operations on their own: they make contract calls and send no
   transaction. *)
NextRead ==
    \/ \E t \in Threads : GetChannel(t)
    \/ \E t \in Threads : GetService(t)
    \/ \E t \in Threads : Return(t)

SpecRead == Init /\ [][NextRead]_vars

-----------------------------------------------------------------------------
(***************************************************************************)
(* Channel state signer: sign_channel_state.  It makes no RPC request and  *)
(* is one step of the client.                                              *)
(***************************************************************************)

ChannelInputs == {<<"0", "x", "1", "f">>, <<"0", "x", "f", "1">>, <<"0", "x", "z">>}
BalanceInputs == {Decimal(0, 105, -1), Decimal(0, 2, 0), Decimal(1, 1, 0)}
NonceInputs == {3, 4, 5}

(* Web3.solidity_keccak(['bytes32', 'uint256', 'uint256', 'uint256'], [...]):
   one hash over the tight concatenation of the four values. *)
StateHash(channel, w1, w2, nonce) == solidity_keccak(<<channel, w1, w2, nonce>>)

(* encode_defunct(message_hash): the personal-message prefix for 32 bytes. *)
encode_defunct(h) == [prefix |-> "\\x19Ethereum Signed Message:\\n32", body |-> h]

(* self.account.sign_message(message).signature *)
SignMessage(key, message) == [signer |-> key, message |-> message]

(* Recovery of the signer of a message from a signature, as the verifying side
   does it (ecrecover over the same prefixed digest): the address of the key
   that signed when the signature is one over that message, and some other
   address, belonging to nobody here, when it is over another message. *)
Recover(message, signature) ==
    IF signature.message = message THEN AddressOf(signature.signer)
    ELSE Address("nobody", "checksum")

sign_channel_state_unprefixed(channel_id, balance1, balance2, nonce) ==
    LET channel == fromhex(Replace0x(channel_id))
        w1 == ToWei(balance1)
        w2 == ToWei(balance2)
    IN  IF ~channel.ok \/ ~w1.ok \/ ~w2.ok
        THEN Raised(Exception("ValueError", "invalid argument"))
        ELSE IF account = None
        THEN Raised(Exception("AttributeError", "sign_message"))
        ELSE Returned(Hex(SignMessage(account,
                 StateHash(channel.value, w1.value, w2.value, nonce))))

sign_channel_state_swapped(channel_id, balance1, balance2, nonce) ==
    LET channel == fromhex(Replace0x(channel_id))
        w1 == ToWei(balance1)
        w2 == ToWei(balance2)
    IN  IF ~channel.ok \/ ~w1.ok \/ ~w2.ok
        THEN Raised(Exception("ValueError", "invalid argument"))
        ELSE IF account = None
        THEN Raised(Exception("AttributeError", "sign_message"))
        ELSE Returned(Hex(SignMessage(account,
                 encode_defunct(StateHash(channel.value, w2.value, w1.value, nonce)))))

sign_channel_state(channel_id, balance1, balance2, nonce) ==
    LET channel == fromhex(Replace0x(channel_id))
        w1 == ToWei(balance1)
        w2 == ToWei(balance2)
    IN  IF ~channel.ok \/ ~w1.ok \/ ~w2.ok
        THEN Raised(Exception("ValueError", "invalid argument"))
        ELSE IF account = None
        THEN Raised(Exception("AttributeError", "sign_message"))
        ELSE Returned(Hex(SignMessage(account,
                 encode_defunct(StateHash(channel.value, w1.value, w2.value, nonce)))))

(* The arguments given to sign_channel_state: every combination of the
   well-formed values, and each ill-formed value with the others well-formed. *)
SignInputs ==
    LET c0 == <<"0", "x", "1", "f">>
        b0 == Decimal(0, 105, -1)
    IN  {<<c, b1, b2, n>> :
             c \in {x \in ChannelInputs : fromhex(Replace0x(x)).ok},
             b1 \in {x \in BalanceInputs : ToWei(x).ok},
             b2 \in {x \in BalanceInputs : ToWei(x).ok},
             n \in NonceInputs}
        \cup {<<c, b0, b0, 5>> : c \in ChannelInputs}
        \cup {<<c0, b, b0, 5>> : b \in BalanceInputs}
        \cup {<<c0, b0, b, 5>> : b \in BalanceInputs}

SignChannelStateMonotonic ==
    /\ Len(signLog) < MaxSigns
    /\ \E in \in SignInputs :
          LET channel_id == in[1]
              balance1 == in[2]
              balance2 == in[3]
              nonce == in[4]
              r == IF \E i \in 1..Len(signLog) :
                         /\ signLog[i].channel = Replace0x(channel_id)
                         /\ signLog[i].nonce >= nonce
                   THEN Raised(Exception("ValueError", "stale nonce"))
                   ELSE sign_channel_state(channel_id, balance1, balance2, nonce)
          IN  /\ signResult' = r
              /\ signCall' = [channel_id |-> channel_id, balance1 |-> balance1,
                              balance2 |-> balance2, nonce |-> nonce]
              /\ signLog' = IF r.kind = "return"
                            THEN Append(signLog,
                                     [channel |-> Replace0x(channel_id),
                                      balance1 |-> balance1,
                                      balance2 |-> balance2,
                                      nonce |-> nonce, signature |-> r.value])
                            ELSE signLog
    /\ UNCHANGED <<account, w3, contracts, callVars, chainVars, codecVars, nameVars>>

(* A call of sign_channel_state.  signLog keeps each signature it returned
   with the arguments it was asked for. *)
SignChannelState ==
    /\ Len(signLog) < MaxSigns
    /\ \E in \in SignInputs :
          LET channel_id == in[1]
              balance1 == in[2]
              balance2 == in[3]
              nonce == in[4]
              r == sign_channel_state(channel_id, balance1, balance2, nonce)
          IN  /\ signResult' = r
              /\ signCall' = [channel_id |-> channel_id, balance1 |-> balance1,
                              balance2 |-> balance2, nonce |-> nonce]
              /\ signLog' = IF r.kind = "return"
                            THEN Append(signLog,
                                     [channel |-> Replace0x(channel_id),
                                      balance1 |-> balance1,
                                      balance2 |-> balance2,
                                      nonce |-> nonce, signature |-> r.value])
                            ELSE signLog
    /\ UNCHANGED <<account, w3, contracts, callVars, chainVars, codecVars, nameVars>>

NextSign == SignChannelState

SpecSign == Init /\ [][NextSign]_vars

-----------------------------------------------------------------------------
(***************************************************************************)
(* Name lookups on their own.  The name of a value of a constant class is  *)
(* found as get_agent, get_service and get_channel find it, in a           *)
(* dictionary built by reflection, and as the class's get_name finds it.   *)
(***************************************************************************)

ConstantClasses == {"Tier", "PricingModel", "ChannelStatus"}
EnumInputs == (-MaxEnum)..MaxEnum

InitNames ==
    /\ InitClient
    /\ amount = Decimal(0, 0, 0)
    /\ wei = NoResult
    /\ wire = Nothing
    /\ display = NoResult
    /\ lookup \in [cls : ConstantClasses, value : EnumInputs]
    /\ names = NoNames

(* tier_name / pricing_model_name / status_name of the read operations *)
LookupReflected ==
    /\ lookup # Nothing
    /\ names.reflected = None
    /\ names' = [names EXCEPT !.reflected = ReflectedName(lookup.cls, lookup.value)]
    /\ UNCHANGED <<account, w3, contracts, callVars, chainVars, signVars, codecVars, lookup>>

(* cls.get_name(value) *)
LookupStatic ==
    /\ lookup # Nothing
    /\ names.static = None
    /\ names' = [names EXCEPT !.static = get_name(lookup.cls, lookup.value)]
    /\ UNCHANGED <<account, w3, contracts, callVars, chainVars, signVars, codecVars, lookup>>

NextNames ==
    \/ LookupReflected
    \/ LookupStatic

SpecNames == InitNames /\ [][NextNames]_vars

-----------------------------------------------------------------------------
(***************************************************************************)
(* Amount codec on its own.  A display amount is converted by _to_wei and  *)
(* the integer it gives is converted back by _from_wei; or a wire integer  *)
(* is converted by _from_wei and the Decimal it gives is converted back by *)
(* _to_wei.                                                                *)
(***************************************************************************)

CodecInputs ==
    {Decimal(s, c, e) : s \in {0, 1},
                        c \in (0..MaxCoeff) \cup {999, 1000, 12345, 123456789},
                        e \in (-MinExpAbs)..MaxExp}

WireInputs == {WireInt(c, e) : c \in 0..MaxCoeff, e \in 0..MaxWireExp}

InitCodec ==
    /\ InitClient
    /\ wei = NoResult
    /\ display = NoResult
    /\ \/ amount \in CodecInputs /\ wire = Nothing
       \/ amount = Nothing /\ wire \in WireInputs
    /\ lookup = Nothing
    /\ names = NoNames

CodecResult(r) ==
    IF r.ok THEN Returned(r.value)
    ELSE Raised(Exception(r.exc, "value must be between 1 and 2**256 - 1"))

(* _to_wei(amount) *)
ConvertToWei ==
    /\ amount # Nothing
    /\ wei.kind = "none"
    /\ wei' = CodecResult(ToWei(amount))
    /\ UNCHANGED <<account, w3, contracts, amount, wire, display, callVars, chainVars, signVars,
                   nameVars>>

(* _from_wei(_to_wei(amount)) *)
ConvertFromWei ==
    /\ wei.kind = "return"
    /\ wire = Nothing
    /\ wire' = wei.value
    /\ display' = CodecResult(FromWei(wei.value))
    /\ UNCHANGED <<account, w3, contracts, amount, wei, callVars, chainVars, signVars,
                   nameVars>>

(* _from_wei(wire) *)
ConvertWire ==
    /\ wire # Nothing
    /\ display.kind = "none"
    /\ display' = CodecResult(FromWei(wire))
    /\ UNCHANGED <<account, w3, contracts, amount, wei, wire, callVars, chainVars, signVars,
                   nameVars>>

(* _to_wei(_from_wei(wire)) *)
ConvertBack ==
    /\ amount = Nothing
    /\ display.kind = "return"
    /\ amount' = display.value
    /\ wei' = CodecResult(ToWei(display.value))
    /\ UNCHANGED <<account, w3, contracts, wire, display, callVars, chainVars, signVars,
                   nameVars>>

NextCodec ==
    \/ ConvertToWei
    \/ ConvertFromWei
    \/ ConvertWire
    \/ ConvertBack

SpecCodec == InitCodec /\ [][NextCodec]_vars

-----------------------------------------------------------------------------
(***************************************************************************)
(* Properties.                                                             *)
(***************************************************************************)

IsWrite(t) == call[t].op \in WriteOps
RaisedType(t, type) == result[t].kind = "raise" /\ result[t].exc.type = type
Confirmed(h) == [hash |-> h, status |-> 1] \in receipts

(* C1: once a state of a channel has been signed at nonce n, no later
   sign_channel_state call for that channel at a nonce <= n returns a
   signature: per channel the nonces of the signatures returned strictly
   increase. *)
C1_SignedNoncesIncrease ==
    \A i \in 1..Len(signLog) : \A j \in 1..Len(signLog) :
        (i < j /\ signLog[i].channel = signLog[j].channel)
            => signLog[j].nonce > signLog[i].nonce

(* C2: a write operation has returned only if it submitted its transaction
   once and the chain holds a receipt of success status for that very
   transaction, whose hash is the one returned. *)
C2_ReturnsOnlyConfirmed ==
    \A t \in Threads :
        (IsWrite(t) /\ result[t].kind = "return")
            => /\ sends[t] = 1
               /\ tx[t] # NoTx
               /\ Confirmed(TxHash(tx[t]))
               /\ result[t].value.tx_hash = Hex(TxHash(tx[t]))

C2_Witness ==
    \E t \in Threads :
        /\ call[t].op = "pay"
        /\ result[t].kind = "return"
        /\ Confirmed(TxHash(tx[t]))

(* C3: when the receipt reports a non-success status the operation raises
   TransactionFailedError and the tx_hash field of that error holds the hash
   of the failed transaction. *)
C3_FailedErrorCarriesHash ==
    \A t \in Threads :
        (pc[t] = "done" /\ outcome[t] = "receipt_failed")
            => /\ RaisedType(t, "TransactionFailedError")
               /\ result[t].exc.tx_hash = Hex(TxHash(tx[t]))

(* C4: one call of a write operation builds at most one transaction and
   submits at most one, and once a failed receipt, a transport error, a
   rejection or a timeout has come back the call has ended by raising. *)
C4_NoRetry ==
    \A t \in Threads :
        /\ sends[t] <= 1
        /\ builds[t] <= 1
        /\ outcome[t] \in {"receipt_failed", "transport", "rejected", "timeout"}
               => pc[t] = "done" /\ result[t].kind = "raise"

C4_Witness ==
    \E t \in Threads : \E u \in Threads :
        /\ IsWrite(t) /\ outcome[t] = "receipt_failed" /\ sends[t] = 1
        /\ IsWrite(u) /\ outcome[u] = "timeout" /\ sends[u] = 1

(* C5: two write operations that both read the account's transaction count
   while the same transactions were mined carry the same nonce, at most one
   of the two transactions is mined, and they do not both return. *)
C5_NonceRace ==
    \A t \in Threads : \A u \in Threads :
        (t # u /\ tx[t] # NoTx /\ tx[u] # NoTx /\ minedAtBuild[t] = minedAtBuild[u])
            => /\ tx[t].nonce = tx[u].nonce
               /\ Cardinality({h \in {TxHash(tx[t]), TxHash(tx[u])} :
                                   ReceiptOf(h) # {}}) <= 1
               /\ ~(result[t].kind = "return" /\ result[u].kind = "return")

C5_Witness ==
    \E t \in Threads : \E u \in Threads :
        /\ t # u
        /\ tx[t] # NoTx /\ tx[u] # NoTx
        /\ minedAtBuild[t] = minedAtBuild[u]
        /\ tx[t].nonce = tx[u].nonce
        /\ result[t].kind = "return"
        /\ sends[u] = 1 /\ outcome[u] = "rejected"

(* C6: the step in which the wait for the receipt times out raises
   TimeExhausted, a timeout error and not TransactionFailedError, and leaves
   the pending transactions and the chain as they are. *)
C6_TimeoutLeavesPending ==
    [][\A t \in Threads :
          (pc[t] = "wait" /\ outcome'[t] = "timeout")
              => /\ result'[t].kind = "raise"
                 /\ result'[t].exc.type = "TimeExhausted"
                 /\ mempool' = mempool
                 /\ receipts' = receipts
                 /\ txCount' = txCount]_vars

(* ... and the transaction of a call that timed out is confirmed later. *)
C6_Witness ==
    \E t \in Threads :
        /\ IsWrite(t)
        /\ outcome[t] = "timeout"
        /\ RaisedType(t, "TimeExhausted")
        /\ Confirmed(TxHash(tx[t]))

HasMalformedAddress(args) ==
    \E i \in 1..Len(args.addrs) : args.addrs[i].form = "malformed"
HasNegativeAmount(args) ==
    \E i \in 1..Len(args.amounts) : IsNegative(args.amounts[i])
BadInput(t) ==
    IsWrite(t) /\ (HasMalformedAddress(call[t].args) \/ HasNegativeAmount(call[t].args))
NoNetwork(t) == rpcLog[t] = <<>> /\ sends[t] = 0 /\ tx[t] = NoTx

(* C7 as stated: a malformed address or a negative amount is rejected with
   InvalidInputError before any network call. *)
C7_RejectedWithInvalidInputError ==
    \A t \in Threads :
        BadInput(t) => pc[t] = "done" /\ RaisedType(t, "InvalidInputError") /\ NoNetwork(t)

(* C7: a write operation given a malformed address or a negative amount ends
   by raising ValueError with no RPC request made and no transaction built,
   signed or submitted. *)
C7_RejectedBeforeNetwork ==
    \A t \in Threads :
        BadInput(t) => pc[t] = "done" /\ RaisedType(t, "ValueError") /\ NoNetwork(t)

C7_Witness ==
    \E t \in Threads : \E u \in Threads :
        /\ IsWrite(t) /\ HasMalformedAddress(call[t].args) /\ RaisedType(t, "ValueError")
        /\ IsWrite(u) /\ HasNegativeAmount(call[u].args)
        /\ ~HasMalformedAddress(call[u].args) /\ RaisedType(u, "ValueError")

RateService(t) == call[t].op = "rate_service"
RatingInRange(t) == call[t].args.rating \in 1..5
RateServiceProceeds(t) ==
    /\ outcome[t] # "invalid"
    /\ func[t].fn = "rateService"
    /\ func[t].rating = call[t].args.rating
    /\ tx[t] # NoTx => tx[t].data = func[t]

(* C8 as stated: the error of an out-of-range rating is InvalidInputError. *)
C8_RatingInvalidInputError ==
    \A t \in Threads :
        (RateService(t) /\ ~RatingInRange(t))
            => pc[t] = "done" /\ RaisedType(t, "InvalidInputError") /\ NoNetwork(t)

(* C8: rate_service with a rating outside [1,5] raises ValueError with no RPC
   request made and nothing submitted; with a rating inside [1,5] (and a
   well-formed provider address) it encodes rateService with that rating and
   that is the transaction it builds and submits. *)
C8_RatingRange ==
    \A t \in Threads :
        RateService(t) =>
            IF ~RatingInRange(t)
            THEN pc[t] = "done" /\ RaisedType(t, "ValueError") /\ NoNetwork(t)
            ELSE ~HasMalformedAddress(call[t].args) => RateServiceProceeds(t)

C8_Witness ==
    \E t \in Threads : \E u \in Threads :
        /\ RateService(t) /\ call[t].args.rating = 6 /\ RaisedType(t, "ValueError")
        /\ RateService(u) /\ call[u].args.rating = 5 /\ tx[u] \in mempool
        /\ tx[u].data.fn = "rateService"

(* C9 as stated, for calls whose arguments are valid: without a private key
   a write operation fails with SigningError before any chain query or
   submission. *)
C9_NoKeySigningError ==
    account = None =>
        \A t \in Threads :
            (IsWrite(t) /\ outcome[t] # "invalid")
                => /\ rpcLog[t] = <<>> /\ sends[t] = 0
                   /\ pc[t] = "done" => RaisedType(t, "SigningError")

(* C9: on a client without a private key a write operation makes no RPC
   request and submits nothing, and it ends by raising: SynapseError from the
   address property when its arguments were valid, the ValueError of the
   validation otherwise. *)
C9_NoKeyFailsBeforeNetwork ==
    account = None =>
        \A t \in Threads :
            IsWrite(t) =>
                /\ NoNetwork(t)
                /\ pc[t] \in {"build", "done"}
                /\ pc[t] = "done" =>
                       IF outcome[t] = "invalid" THEN RaisedType(t, "ValueError")
                       ELSE RaisedType(t, "SynapseError")

C9_Witness ==
    /\ account = None
    /\ \E t \in Threads :
          /\ IsWrite(t) /\ builds[t] = 1 /\ RaisedType(t, "SynapseError")
          /\ rpcLog[t] = <<>>

(* The number of digits d has after the decimal point, zeros at the end not
   counted, and d * 10^18 as an integer when they are at most 18. *)
FracDigits(d) ==
    LET e == d.exp + TrailingZeros(d.coeff)
    IN  IF d.coeff = 0 \/ e >= 0 THEN 0 ELSE -e
Scaled(d) ==
    IF d.coeff = 0 THEN [c |-> 0, e |-> 0]
    ELSE [c |-> d.coeff \div Pow10(TrailingZeros(d.coeff)),
          e |-> d.exp + TrailingZeros(d.coeff) + EtherDecimals]
InDomain(d) == ~IsNegative(d) /\ FracDigits(d) <= EtherDecimals
FitsUint256(d) == ~AboveMaxWei(Scaled(d).c, Scaled(d).e)

(* C10 as stated: _to_wei returns exactly d * 10^18 for every non-negative
   d with at most 18 fractional digits. *)
C10_ExactForEveryAmount ==
    (wei.kind # "none" /\ InDomain(amount))
        => wei.kind = "return" /\ wei.value = Scaled(amount)

(* C10: for a non-negative d with at most 18 fractional digits _to_wei
   returns exactly d * 10^18, with no rounding, when that is at most
   2**256 - 1, and raises ValueError when it is larger. *)
C10_ExactWithinUint256 ==
    (wei.kind # "none" /\ InDomain(amount))
        => IF FitsUint256(amount)
           THEN wei.kind = "return" /\ wei.value = Scaled(amount)
           ELSE wei.kind = "raise" /\ wei.exc.type = "ValueError"

C10_Witness ==
    /\ amount = Decimal(0, 105, -1)
    /\ wei.kind = "return"
    /\ wei.value = [c |-> 105, e |-> 17]

(* C11: _to_wei ends in an error for every negative amount and for every
   amount with more than 18 fractional digits; it returns no integer for
   them (which, for the latter, would be the amount with the digits beyond
   the 18th dropped). *)
C11_RejectsNegativeAndExcessPrecision ==
    (wei.kind # "none" /\ (IsNegative(amount) \/ FracDigits(amount) > EtherDecimals))
        => wei.kind = "raise"

WireFits(x) == ~AboveMaxWei(x.c, x.e)

(* C12 as stated: _from_wei(_to_wei(d)) equals d for every non-negative d
   with at most 18 fractional digits, and _to_wei(_from_wei(x)) equals x for
   every wire integer x (an unsigned 256-bit integer). *)
C12_RoundTripEveryAmount ==
    /\ (wei.kind # "none" /\ InDomain(amount))
           => /\ wei.kind = "return"
              /\ display.kind # "none"
                     => /\ wire = wei.value
                        /\ display.kind = "return"
                        /\ DecimalEq(display.value, amount)
    /\ (wire # Nothing /\ display.kind # "none" /\ WireFits(wire))
           => /\ display.kind = "return"
              /\ (wei.kind # "none" /\ amount = display.value)
                     => wei = Returned(wire)

(* C12: for a non-negative d with at most 18 fractional digits and
   d * 10^18 <= 2**256 - 1, _to_wei(d) returns and _from_wei of what it
   returned is a Decimal equal to d; for a wire integer x <= 2**256 - 1,
   _from_wei(x) returns and _to_wei of what it returned is x. *)
C12_RoundTripWithinUint256 ==
    /\ (wei.kind # "none" /\ InDomain(amount) /\ FitsUint256(amount))
           => /\ wei.kind = "return"
              /\ display.kind # "none"
                     => /\ wire = wei.value
                        /\ display.kind = "return"
                        /\ DecimalEq(display.value, amount)
    /\ (wire # Nothing /\ display.kind # "none" /\ WireFits(wire))
           => /\ display.kind = "return"
              /\ (wei.kind # "none" /\ amount = display.value)
                     => wei = Returned(wire)

(* "0.50" goes to 5 * 10^17 and comes back as 0.5. *)
C12_Witness ==
    /\ amount = Decimal(0, 50, -2)
    /\ wei = Returned([c |-> 5, e |-> 17])
    /\ wire = [c |-> 5, e |-> 17]
    /\ display = Returned(Decimal(0, 5, -1))

(* C13: the escrow_id create_escrow returns is the hex text of one hash over
   the tight concatenation of (the client's own address, recipient, payment
   id, deadline), the last three being the arguments of the createEscrow call
   in the transaction it submitted. *)
C13_EscrowIdIsOneHash ==
    \A t \in Threads :
        (call[t].op = "create_escrow" /\ result[t].kind = "return")
            => /\ tx[t].data.fn = "createEscrow"
               /\ result[t].value.escrow_id =
                      Hex(solidity_keccak(
                          <<AddressBytes(AddressOf(account)),
                            AddressBytes(tx[t].data.addrs[1]),
                            tx[t].data.payment_id,
                            tx[t].data.deadline>>))

(* C14: the stream_id create_stream returns is the hex text of one hash over
   the tight concatenation of (the client's own address, recipient, start
   time, end time), the last three being the arguments of the createStream
   call in the transaction it submitted. *)
C14_StreamIdIsOneHash ==
    \A t \in Threads :
        (call[t].op = "create_stream" /\ result[t].kind = "return")
            => /\ tx[t].data.fn = "createStream"
               /\ result[t].value.stream_id =
                      Hex(solidity_keccak(
                          <<AddressBytes(AddressOf(account)),
                            AddressBytes(tx[t].data.addrs[1]),
                            tx[t].data.start_time,
                            tx[t].data.end_time>>))

ChannelOps == {"get_channel", "open_channel"}

(* The two participants of the channel a get_channel or open_channel call is
   about, as address bytes. *)
Parties(t) ==
    IF call[t].op = "get_channel"
    THEN {AddressBytes(call[t].args.addrs[1]), AddressBytes(call[t].args.addrs[2])}
    ELSE {AddressBytes(AddressOf(account)), AddressBytes(call[t].args.addrs[1])}

(* C15: two calls among get_channel(A, B), get_channel(B, A) and
   open_channel by A towards B that have returned report the same channel id
   whenever they are about the same two participants, in whatever order the
   participants were given. *)
C15_ChannelIdOrderIndependent ==
    \A t \in Threads : \A u \in Threads :
        (/\ call[t].op \in ChannelOps /\ result[t].kind = "return"
         /\ call[u].op \in ChannelOps /\ result[u].kind = "return"
         /\ Parties(t) = Parties(u))
            => result[t].value.channel_id = result[u].value.channel_id

C15_Witness ==
    \E t \in Threads : \E u \in Threads :
        /\ call[t].op = "get_channel" /\ result[t].kind = "return"
        /\ call[t].args.addrs = <<Address("k1", "checksum"), Address("ab", "checksum")>>
        /\ call[u].op = "get_channel" /\ result[u].kind = "return"
        /\ call[u].args.addrs = <<Address("ab", "checksum"), Address("k1", "checksum")>>
        /\ result[t].value.channel_id = result[u].value.channel_id

(* The channel state of a signLog entry in wire form, the digest both sides
   derive from a state, and the states a signature is recovered against. *)
WireState(x) ==
    <<[bytes |-> x.channel], Scaled(x.balance1), Scaled(x.balance2), x.nonce>>
Digest(state) ==
    [prefix |-> "\\x19Ethereum Signed Message:\\n32",
     body |-> Keccak([packed |-> state])]
ValidBalance(d) == InDomain(d) /\ FitsUint256(d)
ValidEntry(x) == ValidBalance(x.balance1) /\ ValidBalance(x.balance2)
OtherStates ==
    {<<[bytes |-> c], Scaled(b1), Scaled(b2), n>> :
         c \in {<<"1", "f">>, <<"f", "1">>},
         b1 \in {Decimal(0, 105, -1), Decimal(0, 1050, -2), Decimal(0, 2, 0)},
         b2 \in {Decimal(0, 105, -1), Decimal(0, 2, 0)},
         n \in 3..6}

(* C16: for every signature sign_channel_state returned for a valid state,
   recovering the signer over the prefixed digest of the hash of that state
   gives the address of the client's key, and recovering it over the digest
   of any different state does not. *)
C16_SignatureRecoversSigner ==
    \A i \in 1..Len(signLog) :
        ValidEntry(signLog[i]) =>
            /\ Recover(Digest(WireState(signLog[i])), signLog[i].signature.hex)
                   = AddressOf(account)
            /\ \A other \in OtherStates :
                   other # WireState(signLog[i])
                       => Recover(Digest(other), signLog[i].signature.hex)
                              # AddressOf(account)

C16_Witness ==
    /\ Len(signLog) >= 1
    /\ signLog[1].channel = <<"1", "f">>
    /\ signLog[1].balance1 = Decimal(0, 105, -1)
    /\ signLog[1].balance2 = Decimal(0, 2, 0)
    /\ signLog[1].nonce = 5
    /\ Recover(Digest(WireState(signLog[1])), signLog[1].signature.hex) = AddressOf("k1")

(* C17: the message of every signature sign_channel_state returned is the
   personal-message prefix over one hash of the tight concatenation (channel
   id bytes, balance1 * 10^18, balance2 * 10^18, nonce) in that order, and two
   signatures it returned for states that differ in the channel id, in a
   balance or in the nonce are over different messages. *)
C17_SignedMessageIsStateDigest ==
    /\ \A i \in 1..Len(signLog) :
           ValidEntry(signLog[i]) =>
               signLog[i].signature.hex.message = Digest(WireState(signLog[i]))
    /\ \A i \in 1..Len(signLog) : \A j \in 1..Len(signLog) :
           (ValidEntry(signLog[i]) /\ ValidEntry(signLog[j])
                /\ WireState(signLog[i]) # WireState(signLog[j]))
               => signLog[i].signature.hex.message # signLog[j].signature.hex.message

(* Two states that differ only in which balance is which. *)
C17_Witness ==
    /\ Len(signLog) >= 2
    /\ signLog[1].channel = signLog[2].channel
    /\ signLog[1].nonce = signLog[2].nonce
    /\ signLog[1].balance1 = Decimal(0, 105, -1) /\ signLog[1].balance2 = Decimal(0, 2, 0)
    /\ signLog[2].balance1 = Decimal(0, 2, 0) /\ signLog[2].balance2 = Decimal(0, 105, -1)
    /\ signLog[1].signature.hex.message = Digest(WireState(signLog[1]))
    /\ signLog[1].signature.hex.message # signLog[2].signature.hex.message

NonceOf(h) == h.keccak.tx.nonce
MinedNonces == {NonceOf(r.hash) : r \in receipts}

(* C18: the nonce of every transaction the client builds is the account's
   transaction count at the time it was built, and the transactions of the
   account that are mined carry the nonces 0, 1, ..., k - 1, each once. *)
C18_ConsecutiveNonces ==
    /\ \A t \in Threads : tx[t] # NoTx => tx[t].nonce = minedAtBuild[t]
    /\ txCount = Cardinality(receipts)
    /\ MinedNonces = 0..(Cardinality(receipts) - 1)
    /\ \A r \in receipts : \A q \in receipts :
           NonceOf(r.hash) = NonceOf(q.hash) => r = q

(* Two calls one after the other, both confirmed: nonces 0 and 1. *)
C18_Witness ==
    \E t \in Threads :
        /\ IsWrite(t) /\ result[t].kind = "return"
        /\ tx[t].nonce = 1
        /\ \A u \in Threads \ {t} : pc[u] = "idle"
        /\ Cardinality(receipts) = 2
        /\ \A r \in receipts : r.status = 1

(* C19: no step of any operation, read or write, returning or raising,
   changes the account key, the endpoint or the configured contract
   addresses of the client, and a get_channel that returns has made its two
   contract calls in that very call: nothing is answered from a cache. *)
C19_ClientStateUnchanged ==
    [][/\ account' = account
       /\ w3' = w3
       /\ contracts' = contracts
       /\ \A t \in Threads :
              (call'[t].op = "get_channel" /\ result'[t].kind = "return"
                   /\ result[t].kind # "return")
                  => rpcLog'[t] = rpcLog[t] \o <<"eth_call", "eth_call">>]_vars

(* The same channel read twice, each read giving what the contract answered
   at the time. *)
C19_Witness ==
    /\ account = "k1" /\ w3 = Endpoint /\ contracts = ContractAddresses
    /\ \E t \in Threads : \E u \in Threads :
          /\ call[t].op = "get_channel" /\ result[t].kind = "return"
          /\ call[u].op = "get_channel" /\ result[u].kind = "return"
          /\ call[t].args = call[u].args
          /\ result[t].value.nonce # result[u].value.nonce

WellFormedSignCall(c) ==
    /\ fromhex(Replace0x(c.channel_id)).ok
    /\ ValidBalance(c.balance1)
    /\ ValidBalance(c.balance2)
SameArguments(x, y) ==
    /\ x.channel = y.channel
    /\ x.balance1 = y.balance1
    /\ x.balance2 = y.balance2
    /\ x.nonce = y.nonce

(* C20: on a client with a key, a sign_channel_state call with a well-formed
   channel id and valid balances returns a signature whatever was signed
   before it, and the signatures returned for equal arguments are equal,
   whatever was signed in between. *)
C20_SignerKeepsNoRecord ==
    /\ (signCall # Nothing /\ account # None /\ WellFormedSignCall(signCall))
           => /\ signResult.kind = "return"
              /\ Len(signLog) >= 1
              /\ signLog[Len(signLog)].signature = signResult.value
              /\ signLog[Len(signLog)].nonce = signCall.nonce
    /\ \A i \in 1..Len(signLog) : \A j \in 1..Len(signLog) :
           SameArguments(signLog[i], signLog[j])
               => signLog[i].signature = signLog[j].signature

(* Nonce 5 signed, then nonce 3 for the same channel, then 5 again. *)
C20_Witness ==
    /\ Len(signLog) = 3
    /\ signLog[1].channel = signLog[2].channel
    /\ signLog[1].nonce = 5
    /\ signLog[2].nonce = 3
    /\ SameArguments(signLog[1], signLog[3])
    /\ signLog[1].signature = signLog[3].signature
    /\ signResult.kind = "return"


-----------------------------------------------------------------------------
(* The values a constant class defines. *)
DefinedValues(cls) ==
    {ClassDict(cls)[i].value.int :
         i \in {j \in 1..Len(ClassDict(cls)) : DOMAIN ClassDict(cls)[j].value = {"int"}}}

(* C24: for every integer value, the name the read operations find in the
   dictionary built by reflection over Tier, PricingModel or ChannelStatus is
   the name the class's get_name gives, and it is "UNKNOWN" for every value
   the class does not define. *)
C24_ReflectedNamesAgree ==
    /\ (names.reflected # None /\ names.static # None) =>
           names.reflected = names.static
    /\ (names.reflected # None /\ lookup.value \notin DefinedValues(lookup.cls)) =>
           names.reflected = "UNKNOWN"
    /\ (names.reflected # None /\ lookup.value \in DefinedValues(lookup.cls)) =>
           names.reflected # "UNKNOWN"

(* Both lookups of ChannelStatus value 3 done: "CLOSED" twice. *)
C24_Witness ==
    /\ lookup = [cls |-> "ChannelStatus", value |-> 3]
    /\ names = [reflected |-> "CLOSED", static |-> "CLOSED"]

-----------------------------------------------------------------------------
ReadOps == {"get_channel", "get_service"}
Answered(t) == call[t].op \in ReadOps /\ pc[t] = "done" /\ outcome[t] = "read"
IsZero7(channel) == channel = <<ZeroAddress, ZeroAddress, WireInt(0, 0), WireInt(0, 0), 0, 0, 0>>

(* C21 as claimed: a read operation whose identifier is malformed or names
   nothing returns a default-valued record instead of raising: every
   get_channel call for a pair of addresses and every get_service call, for
   an unknown or malformed service id alike, that the transport did not fail
   ends by returning. *)
C21_ReadsReturnDefaultRecord ==
    \A t \in Threads :
        /\ (Answered(t) /\ call[t].op = "get_channel" /\ IsZero7(func[t].answer)) =>
               /\ result[t].kind = "return"
               /\ result[t].value.status_name = "NONE"
               /\ result[t].value.challenge_end = Nothing
        /\ (call[t].op = "get_service" /\ pc[t] = "done" /\ outcome[t] # "transport") =>
               result[t].kind = "return"

(* C21 amended: get_channel for a pair with no channel (the contract answers
   the zero tuple) returns zero balances, nonce 0, status 0 named "NONE" and
   challenge_end None; challenge_end is None exactly when challengeEnd is 0;
   get_service for an unknown id returns the record of zero fields, pricing
   model 0; and a service id or party address that is malformed is rejected
   with ValueError before any contract call. *)
C21_DefaultRecordForUnknownOnly ==
    \A t \in Threads :
        /\ (Answered(t) /\ call[t].op = "get_channel") =>
               /\ result[t].kind = "return"
               /\ (result[t].value.challenge_end = Nothing) <=> (func[t].answer[7] = 0)
               /\ IsZero7(func[t].answer) =>
                      /\ result[t].value.balance1 = Decimal(0, 0, 0)
                      /\ result[t].value.balance2 = Decimal(0, 0, 0)
                      /\ result[t].value.nonce = 0
                      /\ result[t].value.status = 0
                      /\ result[t].value.status_name = "NONE"
                      /\ result[t].value.challenge_end = Nothing
        /\ (Answered(t) /\ call[t].op = "get_service") =>
               /\ result[t].kind = "return"
               /\ func[t].answer[1] = ZeroAddress =>
                      result[t].value =
                          [provider |-> ZeroAddress, name |-> "", category |-> "",
                           description |-> "", endpoint |-> "",
                           base_price |-> Decimal(0, 0, 0), pricing_model |-> 0,
                           pricing_model_name |-> "PER_REQUEST", active |-> FALSE,
                           created_at |-> 0]
        /\ (call[t].op \in ReadOps /\ pc[t] = "done" /\ outcome[t] = "invalid") =>
               /\ result[t].kind = "raise"
               /\ result[t].exc.type = "ValueError"
               /\ rpcLog[t] = <<>>
               /\ \/ /\ call[t].op = "get_service"
                     /\ ~fromhex(Replace0x(call[t].args.id)).ok
                  \/ /\ call[t].op = "get_channel"
                     /\ \E i \in 1..2 : call[t].args.addrs[i].form = "malformed"

(* One thread has read a pair with no channel, the other has given
   get_service an id that is not hex. *)
C21_Witness ==
    \E t \in Threads : \E u \in Threads :
        /\ Answered(t) /\ call[t].op = "get_channel"
        /\ IsZero7(func[t].answer)
        /\ result[t].value.challenge_end = Nothing
        /\ result[t].value.status_name = "NONE"
        /\ call[u].op = "get_service" /\ pc[u] = "done"
        /\ result[u].kind = "raise"

-----------------------------------------------------------------------------
PaymentIdOps == {"pay", "create_escrow"}
Encoded(t) == call[t].op \in PaymentIdOps /\ func[t] # NoFunc
DefaultId(t) == Encoded(t) /\ call[t].args.payment_id = Nothing
TimestampIds(op) ==
    {keccak([text |-> <<IF op = "pay" THEN "pay-" ELSE "escrow-", now>>]) : now \in Times}

(* C22: without a payment_id, the id pay and create_escrow give the contract
   is the hash of the operation's prefix and the whole second of the call and
   of nothing else (not of the recipient, the amount or the caller), so that
   two calls of one operation take the same id exactly when they are made in
   the same second; a payment_id the caller gives is the one the contract
   gets and the one returned, as hex text. *)
C22_DefaultPaymentIdIsTimestampHash ==
    \A t \in Threads :
        /\ DefaultId(t) => func[t].payment_id \in TimestampIds(call[t].op)
        /\ \A u \in Threads :
               (DefaultId(t) /\ DefaultId(u) /\ call[t].op = call[u].op) =>
                   ((func[t].payment_id = func[u].payment_id)
                        <=> (func[t].payment_id.keccak.text[2]
                                 = func[u].payment_id.keccak.text[2]))
        /\ (Encoded(t) /\ call[t].args.payment_id # Nothing) =>
               /\ func[t].payment_id = call[t].args.payment_id
               /\ result[t].kind = "return" =>
                      result[t].value.payment_id = Hex(call[t].args.payment_id)
        /\ (DefaultId(t) /\ result[t].kind = "return") =>
               result[t].value.payment_id = Hex(func[t].payment_id)

(* Two pay calls in progress at once, made in the same second: one id. *)
C22_Witness ==
    \E t \in Threads : \E u \in Threads \ {t} :
        /\ DefaultId(t) /\ DefaultId(u)
        /\ call[t].op = "pay" /\ call[u].op = "pay"
        /\ func[t].payment_id = func[u].payment_id
        /\ result[t].kind = "return"
        /\ pc[u] = "wait"

-----------------------------------------------------------------------------
LogIdOps == {"create_dispute", "register_service", "request_quote"}
DerivedId(t) ==
    CASE call[t].op = "create_dispute" -> result[t].value.dispute_id
      [] call[t].op = "register_service" -> result[t].value.service_id
      [] call[t].op = "request_quote" -> result[t].value.quote_id

(* C23: when create_dispute, register_service or request_quote returns, its
   transaction is confirmed with status 1, the result's tx_hash is the hash
   of that transaction and its derived identifier (dispute_id, service_id,
   quote_id) is None, whatever the receipt holds. *)
C23_DerivedIdIsNone ==
    \A t \in Threads :
        (call[t].op \in LogIdOps /\ result[t].kind = "return") =>
            /\ Confirmed(TxHash(tx[t]))
            /\ result[t].value.tx_hash = Hex(TxHash(tx[t]))
            /\ DerivedId(t) = Nothing
            /\ DOMAIN result[t].value =
                   {"tx_hash",
                    CASE call[t].op = "create_dispute" -> "dispute_id"
                      [] call[t].op = "register_service" -> "service_id"
                      [] call[t].op = "request_quote" -> "quote_id"}

(* A create_dispute and a request_quote have both returned. *)
C23_Witness ==
    \E t \in Threads : \E u \in Threads :
        /\ call[t].op = "create_dispute" /\ result[t].kind = "return"
        /\ result[t].value.dispute_id = Nothing
        /\ call[u].op = "request_quote" /\ result[u].kind = "return"
        /\ result[u].value.quote_id = Nothing

-----------------------------------------------------------------------------
(* C26: the batchPay call batch_pay encodes has four arrays, recipients,
   amounts, paymentIds and metadata, each as long as the list of payments,
   entry i of each describing payment i, and the payment ids of one batch are
   pairwise distinct. *)
C26_BatchArraysParallel ==
    \A t \in Threads :
        (call[t].op = "batch_pay" /\ func[t] # NoFunc) =>
            LET n == Len(call[t].args.addrs)
            IN  /\ Len(func[t].addrs) = n
                /\ Len(func[t].weis) = n
                /\ Len(func[t].payment_ids) = n
                /\ Len(func[t].metadata) = n
                /\ \A i \in 1..n :
                       /\ func[t].addrs[i] =
                              to_checksum_address(call[t].args.addrs[i]).value
                       /\ func[t].weis[i] = ToWei(call[t].args.amounts[i]).value
                /\ \A i \in 1..n : \A j \in 1..n :
                       func[t].payment_ids[i] = func[t].payment_ids[j] => i = j

-----------------------------------------------------------------------------
(* The keys of the contracts the client is configured with, in loop order. *)
ConfiguredKeys == SelectSeq(<<1, 2, 3, 4>>, Configured)
Approving(t) == call[t].op = "approve_all"
ApprovalOf(h) == h.hex.keccak.tx.data

(* C25: approve_all submits one approval of 2^256 - 1 per configured
   contract, in the order payment_router, reputation, service_registry,
   payment_channel, unconfigured ones skipped, each one only when all before
   it are confirmed with status 1; when an approval fails, the ones before it
   are confirmed on chain, no further one has been submitted, and the caller
   has the error and no transaction hash; when all succeed the caller has the
   hashes of all of them in order. *)
C25_ApprovalsInOrder ==
    \A t \in Threads :
        Approving(t) =>
            LET hashes == locals[t].tx_hashes
                n == Len(hashes)
            IN  /\ n <= Len(ConfiguredKeys)
                /\ \A i \in 1..n :
                       /\ ApprovalOf(hashes[i]) = ApproveFunc(ConfiguredKeys[i])
                       /\ ApprovalOf(hashes[i]).weis = <<MaxUint256>>
                       /\ Confirmed(hashes[i].hex)
                /\ sends[t] <= n + 1
                /\ pc[t] \in {"build", "send", "wait"} =>
                       /\ n < Len(ConfiguredKeys)
                       /\ locals[t].key = ConfiguredKeys[n + 1]
                       /\ func[t] = ApproveFunc(ConfiguredKeys[n + 1])
                /\ pc[t] = "wait" => sends[t] = n + 1
                /\ result[t].kind = "raise" =>
                       /\ result[t].value = Nothing
                       /\ pc[t] = "done"
                /\ result[t].kind = "return" =>
                       /\ n = Len(ConfiguredKeys)
                       /\ result[t].value = hashes
                       /\ sends[t] = n

(* reputation is not configured; the approvals of payment_router and
   service_registry are confirmed, the one of payment_channel was mined with
   status 0 and approve_all has raised. *)
C25_Witness ==
    \E t \in Threads :
        /\ Approving(t)
        /\ contracts.reputation = None
        /\ ConfiguredKeys = <<1, 3, 4>>
        /\ Len(locals[t].tx_hashes) = 2
        /\ result[t].kind = "raise"
        /\ result[t].exc.type = "TransactionFailedError"
        /\ sends[t] = 3
        /\ Cardinality(receipts) = 3

====
